---- MODULE Spec2Model ----
(***************************************************************************)
(* The X article -> Markdown conversion engine of baoyu-danger-x-to-markdown *)
(* (scripts/markdown.ts with referenced-tweet support, and                  *)
(* scripts/referenced-tweets.ts).                                           *)
(*                                                                         *)
(* Representation.  A JavaScript string is a sequence of one-character      *)
(* strings, so that slice, trim and join act on characters as they do in    *)
(* the code.  null / undefined object slots are the record Null, an absent  *)
(* array or string is Undefined.  A character outside what a TLA+ string    *)
(* can hold is the one-element token of its code point ("U+0060").  An      *)
(* optional property of an object is a field the record may lack.  The      *)
(* entityMap is the array form the X API returns: a sequence whose k-th     *)
(* element is the entry under the property name String(k-1), which is also  *)
(* the order Object.entries / Object.values enumerate it in.                *)
(***************************************************************************)
EXTENDS Integers, Sequences, FiniteSets, TLC

VARIABLES
    article,          \* the input document (read-only)
    args,             \* the arguments of the function under check
    ret,              \* its return value
    pc,               \* position of the run
    \* resolveReferencedTweetsFromArticle
    ids,              \* the reference IDs to look up
    cursor,           \* position of the for loop in ids (1-based)
    referencedTweets, \* the result map, reference ID -> ReferencedTweetInfo
    lookups,          \* the calls of fetchXTweet so far, each with its outcome
    logged,           \* the messages passed to options.log
    \* formatArticleMarkdown
    lines,            \* the lines of the document assembled so far
    usedUrls,         \* the used-URL set
    coverUrl,         \* the resolved cover URL, or Undefined for null
    \* renderContentBlocks
    blockIdx,         \* position of the for loop in blocks (1-based)
    rendered,         \* its lines so far
    previousKind,     \* kind of the last chunk pushed, "none" for null
    listKind,         \* "ordered", "unordered" or "none" for null
    orderedIndex,     \* the ordered-list counter
    inCodeBlock,      \* a code fence is open
    atomicMediaQueue, \* scripts/markdown.ts only: the URLs kept for embeds
    \* the invocations other than the running one
    others            \* their frames: finished, or suspended at an await

resolverVars == <<ids, cursor, referencedTweets, lookups, logged>>

blockVars ==
    <<rendered, previousKind, listKind, orderedIndex, inCodeBlock,
      atomicMediaQueue>>

renderVars == <<lines, usedUrls, coverUrl, blockIdx, blockVars>>

vars == <<article, args, ret, pc, resolverVars, renderVars, others>>

----------------------------------------------------------------------------
(* Values and strings *)

Null == [null |-> TRUE]

\* undefined in a slot that otherwise holds an array or a string
Undefined == (0 :> "undefined")

Truthy(s) == Len(s) > 0

DigitChars == <<"0", "1", "2", "3", "4", "5", "6", "7", "8", "9">>

IsDigit(c) == \E i \in 1..Len(DigitChars) : DigitChars[i] = c

DigitVal(c) == (CHOOSE i \in 1..Len(DigitChars) : DigitChars[i] = c) - 1

IsSpace(c) == c \in {" ", "\n", "\t", "\r"}

\* String.prototype.slice(from, to) for 0 <= from, to (clamped to the length)
Slice(s, from, to) ==
    LET f == IF from > Len(s) THEN Len(s) ELSE from
        t == IF to > Len(s) THEN Len(s) ELSE to
    IN  IF t <= f THEN <<>> ELSE SubSeq(s, f + 1, t)

\* String.prototype.slice(from)
SliceFrom(s, from) == Slice(s, from, Len(s))

RECURSIVE SkipSpace(_)
SkipSpace(s) ==
    IF s # <<>> /\ IsSpace(Head(s)) THEN SkipSpace(Tail(s)) ELSE s

RECURSIVE DigitsValue(_, _)
DigitsValue(s, acc) ==
    IF s # <<>> /\ IsDigit(Head(s))
    THEN DigitsValue(Tail(s), acc * 10 + DigitVal(Head(s)))
    ELSE acc

\* parseInt(s, 10): leading white space, an optional sign, then the longest
\* run of digits; NaN when there is no digit.
ParseInt(s) ==
    LET t == SkipSpace(s)
        neg == t # <<>> /\ Head(t) = "-"
        u == IF t # <<>> /\ Head(t) \in {"-", "+"} THEN Tail(t) ELSE t
    IN  IF u = <<>> \/ ~IsDigit(Head(u))
        THEN [nan |-> TRUE]
        ELSE [nan |-> FALSE,
              n |-> IF neg THEN 0 - DigitsValue(u, 0) ELSE DigitsValue(u, 0)]

----------------------------------------------------------------------------
(* Entity map entries *)

\* entry?.key ?? ""
EntryKey(entry) ==
    IF entry # Null /\ "key" \in DOMAIN entry THEN entry.key ELSE <<>>

\* entry?.value
EntryValue(entry) ==
    IF entry # Null /\ "value" \in DOMAIN entry THEN entry.value ELSE Null

\* typeof value.data?.url === "string" ? value.data.url : ""
DataUrl(value) ==
    IF value # Null /\ "url" \in DOMAIN value.data THEN value.data.url ELSE <<>>

LinkEntity(url) == [type |-> "LINK", data |-> [url |-> url]]

\* items: a sequence of [mediaId |-> id] or [media_id |-> id]
MediaEntity(items) == [type |-> "MEDIA", data |-> [mediaItems |-> items]]

ImageEntity(items, url) ==
    [type |-> "IMAGE", data |-> [mediaItems |-> items, url |-> url]]

TweetEntity(id) == [type |-> "TWEET", data |-> [tweetId |-> id]]

----------------------------------------------------------------------------
(* Entity Map Indexer *)

EmptyLookup == [byIndex |-> <<>>, byLogicalKey |-> <<>>]

MapHas(m, k) == k \in DOMAIN m

\* Map.prototype.get
MapGet(m, k) == IF k \in DOMAIN m THEN m[k] ELSE Null

\* Map.prototype.set
MapSet(m, k, v) == (k :> v) @@ m

\* An iteration of that loop without the has() guard: the last declaration wins
LookupStepLastWins(lookup, idx, entry) ==
    LET logicalKey == ParseInt(EntryKey(entry))
    IN  [byIndex |-> MapSet(lookup.byIndex, idx, entry),
         byLogicalKey |->
            IF ~logicalKey.nan
            THEN MapSet(lookup.byLogicalKey, logicalKey.n, entry)
            ELSE lookup.byLogicalKey]

\* One iteration of the loop of buildEntityLookup, for the entry at idx
LookupStep(lookup, idx, entry) ==
    LET logicalKey == ParseInt(EntryKey(entry))
    IN  [byIndex |-> MapSet(lookup.byIndex, idx, entry),
         byLogicalKey |->
            IF ~logicalKey.nan /\ ~MapHas(lookup.byLogicalKey, logicalKey.n)
            THEN MapSet(lookup.byLogicalKey, logicalKey.n, entry)
            ELSE lookup.byLogicalKey]

RECURSIVE BuildEntityLookupFrom(_, _, _)
BuildEntityLookupFrom(entityMap, i, lookup) ==
    IF i > Len(entityMap)
    THEN lookup
    ELSE BuildEntityLookupFrom(entityMap, i + 1,
                               LookupStep(lookup, i - 1, entityMap[i]))

buildEntityLookup(entityMap) ==
    IF entityMap = Undefined
    THEN EmptyLookup
    ELSE BuildEntityLookupFrom(entityMap, 1, EmptyLookup)

\* entityMap[String(entityKey)]
RawEntry(entityMap, entityKey) ==
    IF entityKey >= 0 /\ entityKey < Len(entityMap)
    THEN entityMap[entityKey + 1]
    ELSE Null

\* resolveEntityEntry with the positional index tried before the logical key
resolveEntityEntryIndexFirst(entityKey, entityMap, lookup) ==
    LET byLogicalKey == MapGet(lookup.byLogicalKey, entityKey)
        byIndex == MapGet(lookup.byIndex, entityKey)
    IN  IF byIndex # Null THEN byIndex
        ELSE IF byLogicalKey # Null THEN byLogicalKey
        ELSE IF entityMap = Undefined THEN Null
        ELSE RawEntry(entityMap, entityKey)

resolveEntityEntry(entityKey, entityMap, lookup) ==
    LET byLogicalKey == MapGet(lookup.byLogicalKey, entityKey)
        byIndex == MapGet(lookup.byIndex, entityKey)
    IN  IF byLogicalKey # Null THEN byLogicalKey
        ELSE IF byIndex # Null THEN byIndex
        ELSE IF entityMap = Undefined THEN Null
        ELSE RawEntry(entityMap, entityKey)

----------------------------------------------------------------------------
(* Media-Link Merge Heuristic *)

\* Map.prototype.get on a map of strings
MapGetStr(m, k) == IF k \in DOMAIN m THEN m[k] ELSE Undefined

IsMediaType(value) == value.type = "MEDIA" \/ value.type = "IMAGE"

\* typeof value.data?.url === "string"
HasStringUrl(value) == "url" \in DOMAIN value.data

\* Array.prototype.sort (stable) of records by ascending key
RECURSIVE InsertByKey(_, _)
InsertByKey(sorted, x) ==
    IF sorted = <<>> THEN <<x>>
    ELSE IF x.key < Head(sorted).key THEN <<x>> \o sorted
    ELSE <<Head(sorted)>> \o InsertByKey(Tail(sorted), x)

RECURSIVE SortByKey(_)
SortByKey(s) ==
    IF s = <<>> THEN <<>>
    ELSE InsertByKey(SortByKey(SubSeq(s, 1, Len(s) - 1)), s[Len(s)])

\* the entries collected by the first loop of buildMediaLinkMap
RECURSIVE MediaEntriesFrom(_, _)
MediaEntriesFrom(entityMap, i) ==
    IF i > Len(entityMap) THEN <<>>
    ELSE LET value == EntryValue(entityMap[i])
             key == ParseInt(EntryKey(entityMap[i]))
         IN  (IF value # Null /\ ~key.nan /\ IsMediaType(value)
              THEN <<[idx |-> i - 1, key |-> key.n]>>
              ELSE <<>>) \o MediaEntriesFrom(entityMap, i + 1)

RECURSIVE LinkEntriesFrom(_, _)
LinkEntriesFrom(entityMap, i) ==
    IF i > Len(entityMap) THEN <<>>
    ELSE LET value == EntryValue(entityMap[i])
             key == ParseInt(EntryKey(entityMap[i]))
         IN  (IF value # Null /\ ~key.nan /\ ~IsMediaType(value)
                 /\ value.type = "LINK" /\ HasStringUrl(value)
              THEN <<[key |-> key.n, url |-> value.data.url]>>
              ELSE <<>>) \o LinkEntriesFrom(entityMap, i + 1)

\* pool.findIndex((l) => l.key > media.key), 0-based, -1 when there is none
FindIndexGreater(pool, key) ==
    LET hits == {i \in 1..Len(pool) : pool[i].key > key}
    IN  IF hits = {} THEN 0 - 1
        ELSE (CHOOSE i \in hits : \A j \in hits : i <= j) - 1

\* pool.splice(linkIdx, 1)
SpliceOut(pool, linkIdx) ==
    SubSeq(pool, 1, linkIdx) \o SubSeq(pool, linkIdx + 2, Len(pool))

\* the second loop of buildMediaLinkMap when an exhausted pool is refilled
\* from the sorted links instead of ending the loop (wrap-around reuse)
RECURSIVE PairMediaReusing(_, _, _, _)
PairMediaReusing(mediaEntries, pool, all, map) ==
    IF mediaEntries = <<>> THEN map
    ELSE LET media == Head(mediaEntries)
             from == IF pool = <<>> THEN all ELSE pool
             found == FindIndexGreater(from, media.key)
             linkIdx == IF found = 0 - 1 THEN 0 ELSE found
             link == from[linkIdx + 1]
         IN  PairMediaReusing(Tail(mediaEntries), SpliceOut(from, linkIdx), all,
                              MapSet(MapSet(map, media.idx, link.url),
                                     media.key, link.url))

\* the second loop of buildMediaLinkMap
RECURSIVE PairMedia(_, _, _, _)
PairMedia(mediaEntries, pool, all, map) ==
    IF mediaEntries = <<>> \/ pool = <<>> THEN map
    ELSE LET media == Head(mediaEntries)
             found == FindIndexGreater(pool, media.key)
             linkIdx == IF found = 0 - 1 THEN 0 ELSE found
             link == pool[linkIdx + 1]
         IN  PairMedia(Tail(mediaEntries), SpliceOut(pool, linkIdx), all,
                       MapSet(MapSet(map, media.idx, link.url),
                              media.key, link.url))

buildMediaLinkMap(entityMap) ==
    IF entityMap = Undefined THEN <<>>
    ELSE LET mediaEntries == MediaEntriesFrom(entityMap, 1)
             linkEntries == LinkEntriesFrom(entityMap, 1)
         IN  IF mediaEntries = <<>> \/ linkEntries = <<>> THEN <<>>
             ELSE PairMedia(SortByKey(mediaEntries), SortByKey(linkEntries),
                            SortByKey(linkEntries), <<>>)

----------------------------------------------------------------------------
(* Inline Range Renderer *)

\* the filter of renderInlineLinks: numeric key, offset and length, length > 0
ValidRange(r) ==
    /\ "key" \in DOMAIN r
    /\ "offset" \in DOMAIN r
    /\ "length" \in DOMAIN r
    /\ r.length > 0

RECURSIVE FilterValid(_)
FilterValid(ranges) ==
    IF ranges = <<>> THEN <<>>
    ELSE (IF ValidRange(Head(ranges)) THEN <<Head(ranges)>> ELSE <<>>)
            \o FilterValid(Tail(ranges))

\* Array.prototype.sort (stable) with (a, b) => b.offset - a.offset
RECURSIVE InsertByOffsetDesc(_, _)
InsertByOffsetDesc(sorted, x) ==
    IF sorted = <<>> THEN <<x>>
    ELSE IF x.offset > Head(sorted).offset THEN <<x>> \o sorted
    ELSE <<Head(sorted)>> \o InsertByOffsetDesc(Tail(sorted), x)

RECURSIVE SortByOffsetDescFrom(_)
SortByOffsetDescFrom(s) ==
    IF s = <<>> THEN <<>>
    ELSE InsertByOffsetDesc(SortByOffsetDescFrom(SubSeq(s, 1, Len(s) - 1)),
                            s[Len(s)])

\* the ranges left in input order (no sort)
KeepInputOrder(valid) == valid

\* the ranges sorted by ascending offset
SortByOffsetAsc(valid) ==
    LET d == SortByOffsetDescFrom(valid)
    IN  [i \in 1..Len(d) |-> d[Len(d) + 1 - i]]

SortByOffsetDesc(valid) == SortByOffsetDescFrom(valid)

\* the URL renderInlineLinks finds for a range key (Undefined when none)
RangeUrl(key, entityMap, entityLookup, mediaLinkMap) ==
    LET value == EntryValue(resolveEntityEntry(key, entityMap, entityLookup))
    IN  IF value = Null THEN Undefined
        ELSE IF value.type = "LINK" /\ HasStringUrl(value) THEN value.data.url
        ELSE IF IsMediaType(value) THEN MapGetStr(mediaLinkMap, key)
        ELSE Undefined

\* one iteration of the loop of renderInlineLinks
ApplyRange(result, range, entityMap, entityLookup, mediaLinkMap) ==
    LET url == RangeUrl(range.key, entityMap, entityLookup, mediaLinkMap)
        linkText == Slice(result, range.offset, range.offset + range.length)
    IN  IF url = Undefined \/ ~Truthy(url) THEN result
        ELSE Slice(result, 0, range.offset)
                \o <<"[">> \o linkText \o <<"]", "(">> \o url \o <<")">>
                \o SliceFrom(result, range.offset + range.length)

RECURSIVE ApplyRanges(_, _, _, _, _)
ApplyRanges(result, sorted, entityMap, entityLookup, mediaLinkMap) ==
    IF sorted = <<>> THEN result
    ELSE ApplyRanges(ApplyRange(result, Head(sorted), entityMap, entityLookup,
                                mediaLinkMap),
                     Tail(sorted), entityMap, entityLookup, mediaLinkMap)

renderInlineLinks(text, entityRanges, entityMap, entityLookup, mediaLinkMap) ==
    IF entityMap = Undefined \/ entityRanges = <<>> THEN text
    ELSE LET valid == FilterValid(entityRanges)
         IN  IF valid = <<>> THEN text
             ELSE ApplyRanges(text, SortByOffsetDesc(valid), entityMap,
                              entityLookup, mediaLinkMap)

----------------------------------------------------------------------------
(* Documents *)

\* a string or a number is the record [primitive |-> its type, chars |-> its
\* spelling]; typeof value === "object"
IsObject(value) == "primitive" \notin DOMAIN value

\* a coercion that takes every object for a document
coerceAnyObject(value) ==
    IF value = Null \/ ~IsObject(value) THEN Null ELSE value

\* coerceArticleEntity: the value itself when it is an object with a string
\* title, plain_text or preview_text or a content_state, else null
coerceArticleEntity(value) ==
    IF value = Null \/ ~IsObject(value) THEN Null
    ELSE IF \/ "title" \in DOMAIN value
            \/ "plain_text" \in DOMAIN value
            \/ "preview_text" \in DOMAIN value
            \/ ("content_state" \in DOMAIN value /\ value.content_state # Null)
         THEN value
         ELSE Null

\* candidate?.content_state?.entityMap
EntityMapOf(candidate) ==
    IF candidate # Null /\ "content_state" \in DOMAIN candidate
       /\ candidate.content_state # Null
       /\ "entityMap" \in DOMAIN candidate.content_state
    THEN candidate.content_state.entityMap
    ELSE Undefined

\* candidate.content_state?.blocks
BlocksOf(candidate) ==
    IF candidate # Null /\ "content_state" \in DOMAIN candidate
       /\ candidate.content_state # Null
       /\ "blocks" \in DOMAIN candidate.content_state
    THEN candidate.content_state.blocks
    ELSE Undefined

----------------------------------------------------------------------------
(* More strings *)

RECURSIVE TrimStart(_)
TrimStart(s) == IF s # <<>> /\ IsSpace(Head(s)) THEN TrimStart(Tail(s)) ELSE s

RECURSIVE TrimEnd(_)
TrimEnd(s) ==
    IF s # <<>> /\ IsSpace(s[Len(s)]) THEN TrimEnd(SubSeq(s, 1, Len(s) - 1))
    ELSE s

\* String.prototype.trim
Trim(s) == TrimEnd(TrimStart(s))

\* String.prototype.split("\n"): the pieces between the newlines
SplitNewline(s) ==
    LET breaks == {i \in 1..Len(s) : s[i] = "\n"}
        n == Cardinality(breaks)
        at(k) == IF k = 0 THEN 0
                 ELSE IF k = n + 1 THEN Len(s) + 1
                 ELSE CHOOSE i \in breaks :
                        Cardinality({j \in breaks : j <= i}) = k
    IN  [k \in 1..(n + 1) |-> SubSeq(s, at(k - 1) + 1, at(k) - 1)]

\* Array.prototype.join(sep)
RECURSIVE Join(_, _)
Join(pieces, sep) ==
    IF pieces = <<>> THEN <<>>
    ELSE IF Len(pieces) = 1 THEN pieces[1]
    ELSE LET half == Len(pieces) \div 2
         IN  Join(SubSeq(pieces, 1, half), sep) \o sep
                \o Join(SubSeq(pieces, half + 1, Len(pieces)), sep)

\* String(n) for n >= 0
RECURSIVE NumStr(_)
NumStr(n) ==
    IF n < 10 THEN <<DigitChars[n + 1]>>
    ELSE NumStr(n \div 10) \o <<DigitChars[(n % 10) + 1]>>

StartsWith(s, prefix) ==
    Len(prefix) <= Len(s) /\ SubSeq(s, 1, Len(prefix)) = prefix

\* String.prototype.includes
Includes(s, sub) ==
    \E i \in 0..(Len(s) - Len(sub)) : SubSeq(s, i + 1, i + Len(sub)) = sub

----------------------------------------------------------------------------
(* Media URL Resolver *)

\* obj.field when it is a non-empty string, else Undefined
StringField(obj, field) ==
    IF obj # Null /\ field \in DOMAIN obj /\ obj[field] # Undefined
       /\ Truthy(obj[field])
    THEN obj[field]
    ELSE Undefined

VideoWord == <<"v", "i", "d", "e", "o">>

\* variant?.content_type?.includes("video")
IsVideoVariant(variant) ==
    /\ variant # Null
    /\ "content_type" \in DOMAIN variant
    /\ Includes(variant.content_type, VideoWord)

\* variant.bit_rate ?? 0
BitRate(variant) == IF "bit_rate" \in DOMAIN variant THEN variant.bit_rate ELSE 0

RECURSIVE FilterVideo(_)
FilterVideo(variants) ==
    IF variants = <<>> THEN <<>>
    ELSE (IF IsVideoVariant(Head(variants)) THEN <<Head(variants)>> ELSE <<>>)
            \o FilterVideo(Tail(variants))

\* Array.prototype.sort (stable) with (a, b) => (b.bit_rate ?? 0) - (a.bit_rate ?? 0)
RECURSIVE InsertByBitRateDesc(_, _)
InsertByBitRateDesc(sorted, x) ==
    IF sorted = <<>> THEN <<x>>
    ELSE IF BitRate(x) > BitRate(Head(sorted)) THEN <<x>> \o sorted
    ELSE <<Head(sorted)>> \o InsertByBitRateDesc(Tail(sorted), x)

\* the video variants left in the order of the list
KeepVariantOrder(s) == s

RECURSIVE SortByBitRateDesc(_)
SortByBitRateDesc(s) ==
    IF s = <<>> THEN <<>>
    ELSE InsertByBitRateDesc(SortByBitRateDesc(SubSeq(s, 1, Len(s) - 1)),
                             s[Len(s)])

\* x?.url
UrlField(x) == IF x # Null /\ "url" \in DOMAIN x THEN x.url ELSE Undefined

resolveMediaUrl(info) ==
    IF info = Null THEN Undefined
    ELSE IF StringField(info, "original_img_url") # Undefined
         THEN info.original_img_url
    ELSE IF "preview_image" \in DOMAIN info
            /\ StringField(info.preview_image, "original_img_url") # Undefined
         THEN info.preview_image.original_img_url
    ELSE LET variants == IF "variants" \in DOMAIN info THEN info.variants
                         ELSE <<>>
             videos == SortByBitRateDesc(FilterVideo(variants))
             mp4 == IF videos = <<>> THEN Null ELSE videos[1]
         IN  IF UrlField(mp4) # Undefined THEN UrlField(mp4)
             ELSE IF variants = <<>> THEN Undefined
             ELSE UrlField(variants[1])

\* entity?.media_info
MediaInfoOf(entity) ==
    IF entity # Null /\ "media_info" \in DOMAIN entity THEN entity.media_info
    ELSE Null

\* article.media_entities ?? []
MediaEntitiesOf(candidate) ==
    IF "media_entities" \in DOMAIN candidate THEN candidate.media_entities
    ELSE <<>>

RECURSIVE BuildMediaByIdFrom(_, _)
BuildMediaByIdFrom(entities, map) ==
    IF entities = <<>> THEN map
    ELSE LET entity == Head(entities)
             url == resolveMediaUrl(MediaInfoOf(entity))
         IN  BuildMediaByIdFrom(
                Tail(entities),
                IF entity = Null \/ "media_id" \notin DOMAIN entity
                   \/ entity.media_id = ""
                THEN map
                ELSE IF url # Undefined /\ Truthy(url)
                     THEN MapSet(map, entity.media_id, url)
                     ELSE map)

buildMediaById(candidate) == BuildMediaByIdFrom(MediaEntitiesOf(candidate), <<>>)

\* addUrl that lists a URL whether or not it is used
AddUrlNoCheck(acc, url, excludeUrl) ==
    IF url = Undefined \/ ~Truthy(url) THEN acc
    ELSE IF excludeUrl # Undefined /\ Truthy(excludeUrl) /\ url = excludeUrl
         THEN [acc EXCEPT !.usedUrls = @ \cup {url}]
    ELSE [urls |-> Append(acc.urls, url), usedUrls |-> acc.usedUrls \cup {url}]

\* addUrl of collectMediaUrls, on acc = [urls, usedUrls]
AddUrl(acc, url, excludeUrl) ==
    IF url = Undefined \/ ~Truthy(url) THEN acc
    ELSE IF excludeUrl # Undefined /\ Truthy(excludeUrl) /\ url = excludeUrl
         THEN [acc EXCEPT !.usedUrls = @ \cup {url}]
    ELSE IF url \in acc.usedUrls THEN acc
    ELSE [urls |-> Append(acc.urls, url), usedUrls |-> acc.usedUrls \cup {url}]

RECURSIVE CollectMediaUrlsFrom(_, _, _)
CollectMediaUrlsFrom(entities, acc, excludeUrl) ==
    IF entities = <<>> THEN acc
    ELSE CollectMediaUrlsFrom(
            Tail(entities),
            AddUrl(acc, resolveMediaUrl(MediaInfoOf(Head(entities))), excludeUrl),
            excludeUrl)

\* collectMediaUrls: the urls returned and the used set as it leaves it
collectMediaUrls(candidate, used, excludeUrl) ==
    CollectMediaUrlsFrom(MediaEntitiesOf(candidate),
                         [urls |-> <<>>, usedUrls |-> used], excludeUrl)

----------------------------------------------------------------------------
(* Lines of an entity: attached media, quoted posts *)

\* text.replace(/[\[\]]/g, "\\$&")
RECURSIVE escapeMarkdownAlt(_)
escapeMarkdownAlt(text) ==
    IF text = <<>> THEN <<>>
    ELSE (IF Head(text) \in {"[", "]"} THEN <<"\\", Head(text)>>
          ELSE <<Head(text)>>) \o escapeMarkdownAlt(Tail(text))

\* s.replace(/\s+/g, " ")
RECURSIVE CollapseSpace(_)
CollapseSpace(s) ==
    IF s = <<>> THEN <<>>
    ELSE IF IsSpace(Head(s)) THEN <<" ">> \o CollapseSpace(TrimStart(s))
    ELSE <<Head(s)>> \o CollapseSpace(Tail(s))

normalizeCaption(caption) ==
    IF caption = Undefined \/ Trim(caption) = <<>> THEN <<>>
    ELSE CollapseSpace(Trim(caption))

ImageLine(altText, url) ==
    <<"!", "[">> \o altText \o <<"]", "(">> \o url \o <<")">>

\* item.mediaId if a string, else item.media_id if a string
ItemMediaId(item) ==
    IF item = Null THEN ""
    ELSE IF "mediaId" \in DOMAIN item THEN item.mediaId
    ELSE IF "media_id" \in DOMAIN item THEN item.media_id
    ELSE ""

\* the loop over mediaItems that embeds a URL whether or not it is used
RECURSIVE MediaItemLinesNoCheck(_, _, _, _)
MediaItemLinesNoCheck(items, altText, mediaById, acc) ==
    IF items = <<>> THEN acc
    ELSE LET mediaId == ItemMediaId(Head(items))
             url == IF mediaId # "" THEN MapGetStr(mediaById, mediaId)
                    ELSE Undefined
         IN  MediaItemLinesNoCheck(
                Tail(items), altText, mediaById,
                IF url # Undefined /\ Truthy(url)
                THEN [lines |-> Append(acc.lines, ImageLine(altText, url)),
                      usedUrls |-> acc.usedUrls \cup {url}]
                ELSE acc)

\* the loop over mediaItems of resolveEntityMediaLines, on
\* acc = [lines, usedUrls]
RECURSIVE MediaItemLines(_, _, _, _)
MediaItemLines(items, altText, mediaById, acc) ==
    IF items = <<>> THEN acc
    ELSE LET mediaId == ItemMediaId(Head(items))
             url == IF mediaId # "" THEN MapGetStr(mediaById, mediaId)
                    ELSE Undefined
         IN  MediaItemLines(
                Tail(items), altText, mediaById,
                IF url # Undefined /\ Truthy(url) /\ url \notin acc.usedUrls
                THEN [lines |-> Append(acc.lines, ImageLine(altText, url)),
                      usedUrls |-> acc.usedUrls \cup {url}]
                ELSE acc)

\* resolveEntityMediaLines: the lines returned and the used set as it leaves it
resolveEntityMediaLines(entityKey, entityMap, entityLookup, mediaById, used) ==
    LET value == EntryValue(resolveEntityEntry(entityKey, entityMap, entityLookup))
    IN  IF value = Null \/ ~IsMediaType(value)
        THEN [lines |-> <<>>, usedUrls |-> used]
        ELSE LET caption == normalizeCaption(
                                IF "caption" \in DOMAIN value.data
                                THEN value.data.caption ELSE Undefined)
                 altText == IF Truthy(caption) THEN escapeMarkdownAlt(caption)
                            ELSE <<>>
                 items == IF "mediaItems" \in DOMAIN value.data
                          THEN value.data.mediaItems ELSE <<>>
                 afterItems ==
                    MediaItemLines(items, altText, mediaById,
                                   [lines |-> <<>>, usedUrls |-> used])
                 fallbackUrl == IF HasStringUrl(value) THEN value.data.url
                                ELSE Undefined
             IN  IF fallbackUrl # Undefined /\ Truthy(fallbackUrl)
                    /\ fallbackUrl \notin afterItems.usedUrls
                 THEN [lines |-> Append(afterItems.lines,
                                        ImageLine(altText, fallbackUrl)),
                       usedUrls |-> afterItems.usedUrls \cup {fallbackUrl}]
                 ELSE afterItems

\* the end of the match of /\r?\n+/ in s that starts at position i: the
\* newlines that follow, up to the next carriage return
BreakEnd(s, i) ==
    CHOOSE j \in i..Len(s) :
        /\ s[j] = "\n"
        /\ \A q \in (i + 1)..j : s[q] = "\n"
        /\ j = Len(s) \/ s[j + 1] # "\n"

\* the pieces of text.split(/\r?\n+/): a match starts at a newline that
\* follows no newline and at a carriage return before a newline
SplitLineBreaks(s) ==
    LET starts == {i \in 1..Len(s) :
                     \/ s[i] = "\n" /\ (i = 1 \/ s[i - 1] # "\n")
                     \/ s[i] = "\r" /\ i < Len(s) /\ s[i + 1] = "\n"}
        n == Cardinality(starts)
        at(k) == CHOOSE i \in starts : Cardinality({j \in starts : j <= i}) = k
        from(k) == IF k = 1 THEN 1 ELSE BreakEnd(s, at(k - 1)) + 1
        to(k) == IF k = n + 1 THEN Len(s) ELSE at(k) - 1
    IN  [k \in 1..(n + 1) |-> SubSeq(s, from(k), to(k))]

----------------------------------------------------------------------------
(* Referenced-Content Resolver *)

GenericStatusPrefix ==
    <<"h", "t", "t", "p", "s", ":", "/", "/", "x", ".", "c", "o", "m", "/",
      "i", "/", "w", "e", "b", "/", "s", "t", "a", "t", "u", "s", "/">>

XPrefix ==
    <<"h", "t", "t", "p", "s", ":", "/", "/", "x", ".", "c", "o", "m", "/">>

StatusInfix == <<"/", "s", "t", "a", "t", "u", "s", "/">>

FailPrefix ==
    <<"[", "x", "-", "t", "o", "-", "m", "a", "r", "k", "d", "o", "w", "n",
      "]", " ", "F", "a", "i", "l", "e", "d", " ", "t", "o", " ", "f", "e",
      "t", "c", "h", " ", "r", "e", "f", "e", "r", "e", "n", "c", "e", "d",
      " ", "t", "w", "e", "e", "t", " ">>

\* typeof value.data?.tweetId === "string" ? value.data.tweetId : ""
DataTweetId(value) ==
    IF "tweetId" \in DOMAIN value.data THEN value.data.tweetId ELSE <<>>

InSeq(x, s) == \E i \in 1..Len(s) : s[i] = x

\* one iteration of the loop of extractReferencedTweetIds; ids doubles as the
\* seen set, which holds exactly the IDs pushed so far
\* (here without the seen check: every occurrence is pushed)
ExtractStepNoDedup(found, entry) ==
    LET value == EntryValue(entry)
    IN  IF value = Null \/ value.type # "TWEET" THEN found
        ELSE IF ~Truthy(DataTweetId(value)) THEN found
        ELSE Append(found, DataTweetId(value))

ExtractStep(found, entry) ==
    LET value == EntryValue(entry)
    IN  IF value = Null \/ value.type # "TWEET" THEN found
        ELSE IF ~Truthy(DataTweetId(value)) \/ InSeq(DataTweetId(value), found)
             THEN found
             ELSE Append(found, DataTweetId(value))

RECURSIVE ExtractFrom(_, _, _)
ExtractFrom(entityMap, i, found) ==
    IF i > Len(entityMap) THEN found
    ELSE ExtractFrom(entityMap, i + 1, ExtractStep(found, entityMap[i]))

extractReferencedTweetIds(doc) ==
    LET entityMap == EntityMapOf(coerceArticleEntity(doc))
    IN  IF entityMap = Undefined THEN <<>> ELSE ExtractFrom(entityMap, 1, <<>>)

\* typeof a === "string" ? a : typeof b === "string" ? b : undefined
FirstString(obj, a, b) ==
    IF obj = Null THEN Undefined
    ELSE IF a \in DOMAIN obj THEN obj[a]
    ELSE IF b \in DOMAIN obj THEN obj[b]
    ELSE Undefined

\* a record without the fields whose value is undefined
Defined(fields) ==
    LET keep == {f \in DOMAIN fields : fields[f] # Undefined}
    IN  [f \in keep |-> fields[f]]

\* a record whose URL is built from the ID asked for, whatever rest_id the
\* post carries
extractInfoUrlOfFallback(tweet, fallbackTweetId) ==
    LET authorName == FirstString(tweet, "core_name", "legacy_name")
        authorUsername ==
            FirstString(tweet, "core_screen_name", "legacy_screen_name")
        text == IF tweet = Null THEN Undefined
                ELSE IF "note_text" \in DOMAIN tweet THEN tweet.note_text
                ELSE IF "full_text" \in DOMAIN tweet THEN tweet.full_text
                ELSE IF "text" \in DOMAIN tweet THEN tweet.text
                ELSE Undefined
        tweetId == IF tweet # Null /\ "rest_id" \in DOMAIN tweet
                      /\ Len(tweet.rest_id) > 0
                   THEN tweet.rest_id
                   ELSE fallbackTweetId
        url == IF authorUsername # Undefined /\ Truthy(authorUsername)
               THEN XPrefix \o authorUsername \o StatusInfix \o fallbackTweetId
               ELSE GenericStatusPrefix \o fallbackTweetId
    IN  Defined([id |-> tweetId, url |-> url, authorName |-> authorName,
                 authorUsername |-> authorUsername, text |-> text])

\* extractReferencedTweetInfo; the tweet is flattened: core_name is
\* core.user_results.result.core.name, legacy_name is ...result.legacy.name,
\* note_text is note_tweet.note_tweet_results.result.text, full_text and text
\* are legacy.full_text and legacy.text
extractReferencedTweetInfo(tweet, fallbackTweetId) ==
    LET authorName == FirstString(tweet, "core_name", "legacy_name")
        authorUsername ==
            FirstString(tweet, "core_screen_name", "legacy_screen_name")
        text == IF tweet = Null THEN Undefined
                ELSE IF "note_text" \in DOMAIN tweet THEN tweet.note_text
                ELSE IF "full_text" \in DOMAIN tweet THEN tweet.full_text
                ELSE IF "text" \in DOMAIN tweet THEN tweet.text
                ELSE Undefined
        tweetId == IF tweet # Null /\ "rest_id" \in DOMAIN tweet
                      /\ Len(tweet.rest_id) > 0
                   THEN tweet.rest_id
                   ELSE fallbackTweetId
        url == IF authorUsername # Undefined /\ Truthy(authorUsername)
               THEN XPrefix \o authorUsername \o StatusInfix \o tweetId
               ELSE GenericStatusPrefix \o tweetId
    IN  Defined([id |-> tweetId, url |-> url, authorName |-> authorName,
                 authorUsername |-> authorUsername, text |-> text])

\* the record set in the catch block
DegradedInfo(id) == [id |-> id, url |-> GenericStatusPrefix \o id]

\* error instanceof Error ? error.message : String(error)
ErrorText(error) ==
    IF "message" \in DOMAIN error THEN error.message ELSE error.thrown

FailMessage(id, error) == FailPrefix \o id \o <<":", " ">> \o ErrorText(error)

\* what fetchXTweet may resolve with for an ID: nothing usable, the post with
\* its author and text, or a post carrying another rest_id and only a legacy
\* handle
TweetPayloads(id) ==
    {Null,
     [rest_id |-> id, core_name |-> <<"N">>, core_screen_name |-> <<"n">>,
      full_text |-> <<"t">>],
     [rest_id |-> <<"0">>, legacy_screen_name |-> <<"m">>, text |-> <<"s">>]}

\* what fetchXTweet may reject with: an Error, or a thrown non-Error value
LookupErrors == {[message |-> <<"E">>], [thrown |-> <<"4", "0", "4">>]}

\* the lookups that have not settled
Pending(ls) == {i \in 1..Len(ls) : ls[i].outcome = "pending"}

\* const ids = extractReferencedTweetIds(article);
\* const referencedTweets = new Map()
ResolveStart ==
    /\ pc = "resolve"
    /\ ids' = extractReferencedTweetIds(article)
    /\ cursor' = 1
    /\ referencedTweets' = <<>>
    /\ pc' = "loop"
    /\ UNCHANGED <<renderVars, others, article, args, ret, lookups, logged>>

\* the loop may issue the lookup of ids[cursor]
CanIssue == pc = "loop" /\ cursor <= Len(ids)

\* await fetchXTweet(id, cookieMap, false): the call is issued and the
\* function suspends
IssueLookup ==
    /\ CanIssue
    /\ lookups' = Append(lookups, [id |-> ids[cursor], outcome |-> "pending"])
    /\ pc' = "await"
    /\ UNCHANGED <<renderVars, others, article, args, ret, ids, cursor, referencedTweets, logged>>

\* the pending lookup resolves: the try block runs to its end
LookupSucceeds ==
    /\ pc = "await"
    /\ \E tweet \in TweetPayloads(ids[cursor]) :
          referencedTweets' =
              MapSet(referencedTweets, ids[cursor],
                     extractReferencedTweetInfo(tweet, ids[cursor]))
    /\ lookups' = [lookups EXCEPT ![Len(lookups)].outcome = "resolved"]
    /\ cursor' = cursor + 1
    /\ pc' = "loop"
    /\ UNCHANGED <<renderVars, others, article, args, ret, ids, logged>>

\* the pending lookup rejects with no catch around it: the rejection leaves
\* the function
LookupFailsUncaught ==
    /\ pc = "await"
    /\ \E error \in LookupErrors : ret' = [rejected |-> ErrorText(error)]
    /\ lookups' = [lookups EXCEPT ![Len(lookups)].outcome = "rejected"]
    /\ pc' = "rejected"
    /\ UNCHANGED <<renderVars, others, article, args, ids, cursor, referencedTweets, logged>>

\* the pending lookup rejects: the catch block logs and sets the degraded
\* record
LookupFails ==
    /\ pc = "await"
    /\ \E error \in LookupErrors :
          logged' = Append(logged, FailMessage(ids[cursor], error))
    /\ referencedTweets' =
          MapSet(referencedTweets, ids[cursor], DegradedInfo(ids[cursor]))
    /\ lookups' = [lookups EXCEPT ![Len(lookups)].outcome = "rejected"]
    /\ cursor' = cursor + 1
    /\ pc' = "loop"
    /\ UNCHANGED <<renderVars, others, article, args, ret, ids>>

\* return referencedTweets
ResolveReturn ==
    /\ pc = "loop"
    /\ cursor > Len(ids)
    /\ ret' = [referencedTweets |-> referencedTweets]
    /\ pc' = "returned"
    /\ UNCHANGED <<renderVars, others, article, args, resolverVars>>

----------------------------------------------------------------------------
(* Quoted posts *)

\* obj?.field
Field(obj, field) ==
    IF obj # Null /\ field \in DOMAIN obj THEN obj[field] ELSE Undefined

SummaryLimit == 280

SummaryKeep == 277

\* pieces.map((line) => line.trim()).filter(Boolean)
RECURSIVE TrimmedNonEmpty(_)
TrimmedNonEmpty(pieces) ==
    IF pieces = <<>> THEN <<>>
    ELSE (IF Trim(Head(pieces)) # <<>> THEN <<Trim(Head(pieces))>> ELSE <<>>)
            \o TrimmedNonEmpty(Tail(pieces))

\* a summary cut at the limit itself, before the three dots
summarizeTweetTextCutAtLimit(text) ==
    IF text = Undefined \/ Trim(text) = <<>> THEN <<>>
    ELSE LET normalized ==
                Join(TrimmedNonEmpty(SplitLineBreaks(Trim(text))), <<" ">>)
         IN  IF Len(normalized) <= SummaryLimit THEN normalized
             ELSE Slice(normalized, 0, SummaryLimit) \o <<".", ".", ".">>

summarizeTweetText(text) ==
    IF text = Undefined \/ Trim(text) = <<>> THEN <<>>
    ELSE LET normalized ==
                Join(TrimmedNonEmpty(SplitLineBreaks(Trim(text))), <<" ">>)
         IN  IF Len(normalized) <= SummaryLimit THEN normalized
             ELSE Slice(normalized, 0, SummaryKeep) \o <<".", ".", ".">>

\* tweetId is non-empty where this is called
buildTweetUrl(tweetId, username) ==
    IF username # Undefined /\ Truthy(username)
    THEN XPrefix \o username \o StatusInfix \o tweetId
    ELSE GenericStatusPrefix \o tweetId

\* "> " followed by the four-character label U+5F15 U+7528 U+63A8 U+6587
QuoteLabel == <<">", " ", "U+5F15", "U+7528", "U+63A8", "U+6587">>

\* the full-width colon
WideColon == <<"U+FF1A">>

\* options.referencedTweets?.get(tweetId)
ReferencedOf(options, tweetId) ==
    IF "referencedTweets" \in DOMAIN options
    THEN MapGet(options.referencedTweets, tweetId)
    ELSE Null

resolveEntityTweetLines(entityKey, entityMap, entityLookup, options) ==
    LET value == EntryValue(resolveEntityEntry(entityKey, entityMap, entityLookup))
    IN  IF value = Null \/ value.type # "TWEET" \/ DataTweetId(value) = <<>>
        THEN <<>>
        ELSE LET tweetId == DataTweetId(value)
                 referenced == ReferencedOf(options, tweetId)
                 name == Field(referenced, "authorName")
                 handle == Field(referenced, "authorUsername")
                 hasName == name # Undefined /\ Truthy(name)
                 hasHandle == handle # Undefined /\ Truthy(handle)
                 url == IF Field(referenced, "url") # Undefined
                        THEN referenced.url
                        ELSE buildTweetUrl(tweetId, handle)
                 authorText ==
                    IF hasName /\ hasHandle
                    THEN name \o <<" ", "(", "@">> \o handle \o <<")">>
                    ELSE IF hasHandle THEN <<"@">> \o handle
                    ELSE IF hasName THEN name
                    ELSE <<>>
                 summary == summarizeTweetText(Field(referenced, "text"))
             IN  <<QuoteLabel \o (IF Truthy(authorText)
                                  THEN WideColon \o authorText ELSE <<>>)>>
                 \o (IF Truthy(summary) THEN <<(<<">", " ">> \o summary)>>
                     ELSE <<>>)
                 \o <<(<<">", " ">> \o url)>>

----------------------------------------------------------------------------
(* Block Renderer *)

\* The renderer's mutable state is the record
\* st = [lines, previousKind, listKind, orderedIndex, inCodeBlock, usedUrls];
\* ctx = [entityMap, entityLookup, mediaById, mediaLinkMap, options] are the
\* values it only reads.

\* a pushBlock that separates every two chunks, stackable kinds too
pushBlockAlwaysGap(st, blockLines, kind) ==
    IF blockLines = <<>> THEN st
    ELSE [st EXCEPT
            !.lines = (IF Len(st.lines) > 0 THEN Append(@, <<>>) ELSE @)
                         \o blockLines,
            !.previousKind = kind]

\* a pushBlock that stacks every two chunks of one kind, whatever the kind
pushBlockStacksAll(st, blockLines, kind) ==
    IF blockLines = <<>> THEN st
    ELSE LET gap == /\ Len(st.lines) > 0
                    /\ st.previousKind # "none"
                    /\ st.previousKind # kind
         IN  [st EXCEPT
                !.lines = (IF gap THEN Append(@, <<>>) ELSE @) \o blockLines,
                !.previousKind = kind]

pushBlock(st, blockLines, kind) ==
    IF blockLines = <<>> THEN st
    ELSE LET gap == /\ Len(st.lines) > 0
                    /\ st.previousKind # "none"
                    /\ ~(st.previousKind = kind
                         /\ kind \in {"list", "quote", "media"})
         IN  [st EXCEPT
                !.lines = (IF gap THEN Append(@, <<>>) ELSE @) \o blockLines,
                !.previousKind = kind]

\* typeof block?.type === "string" ? block.type : "unstyled"
BlockType(block) == IF "type" \in DOMAIN block THEN block.type ELSE "unstyled"

\* typeof block?.text === "string" ? block.text : ""
BlockText(block) == IF "text" \in DOMAIN block THEN block.text ELSE <<>>

\* Array.isArray(block.entityRanges) ? block.entityRanges : []
BlockRanges(block) ==
    IF "entityRanges" \in DOMAIN block THEN block.entityRanges ELSE <<>>

\* typeof range?.key === "number"
HasNumberKey(range) == range # Null /\ "key" \in DOMAIN range

\* the loop of collectMediaLines on acc = [lines, usedUrls]
RECURSIVE CollectMediaLinesFrom(_, _, _)
CollectMediaLinesFrom(ranges, ctx, acc) ==
    IF ranges = <<>> THEN acc
    ELSE IF ~HasNumberKey(Head(ranges))
         THEN CollectMediaLinesFrom(Tail(ranges), ctx, acc)
    ELSE LET r == resolveEntityMediaLines(Head(ranges).key, ctx.entityMap,
                        ctx.entityLookup, ctx.mediaById, acc.usedUrls)
         IN  CollectMediaLinesFrom(
                Tail(ranges), ctx,
                [lines |-> acc.lines \o r.lines, usedUrls |-> r.usedUrls])

collectMediaLines(block, ctx, used) ==
    CollectMediaLinesFrom(BlockRanges(block), ctx,
                          [lines |-> <<>>, usedUrls |-> used])

RECURSIVE CollectTweetLinesFrom(_, _)
CollectTweetLinesFrom(ranges, ctx) ==
    IF ranges = <<>> THEN <<>>
    ELSE (IF HasNumberKey(Head(ranges))
          THEN resolveEntityTweetLines(Head(ranges).key, ctx.entityMap,
                                       ctx.entityLookup, ctx.options)
          ELSE <<>>) \o CollectTweetLinesFrom(Tail(ranges), ctx)

collectTweetLines(block, ctx) == CollectTweetLinesFrom(BlockRanges(block), ctx)

\* [...new Set(list)]: the first occurrence of each element, in order
RECURSIVE Dedup(_, _)
Dedup(list, kept) ==
    IF list = <<>> THEN kept
    ELSE Dedup(Tail(list),
               IF InSeq(Head(list), kept) THEN kept
               ELSE Append(kept, Head(list)))

RECURSIVE CollectLinkLinesFrom(_, _)
CollectLinkLinesFrom(ranges, ctx) ==
    IF ranges = <<>> THEN <<>>
    ELSE LET range == Head(ranges)
             value == IF HasNumberKey(range)
                      THEN EntryValue(resolveEntityEntry(
                                range.key, ctx.entityMap, ctx.entityLookup))
                      ELSE Null
             url == IF value # Null /\ value.type = "LINK" THEN DataUrl(value)
                    ELSE <<>>
         IN  (IF Truthy(url) THEN <<url>> ELSE <<>>)
                \o CollectLinkLinesFrom(Tail(ranges), ctx)

\* the URLs of the Link entities of the ranges, repeated ones kept
collectLinkLinesKeepAll(block, ctx) ==
    CollectLinkLinesFrom(BlockRanges(block), ctx)

collectLinkLines(block, ctx) ==
    Dedup(CollectLinkLinesFrom(BlockRanges(block), ctx), <<>>)

\* attached media whose URLs are marked used and whose lines are not pushed
pushTrailingMediaUnlisted(st, block, ctx) ==
    [st EXCEPT !.usedUrls = collectMediaLines(block, ctx, st.usedUrls).usedUrls]

\* pushTrailingMedia(collectMediaLines(block))
pushTrailingMedia(st, block, ctx) ==
    LET media == collectMediaLines(block, ctx, st.usedUrls)
    IN  pushBlock([st EXCEPT !.usedUrls = media.usedUrls], media.lines, "media")

\* the code fence: three grave accents, each written U+0060
Fence == <<"U+0060", "U+0060", "U+0060">>

\* if (inCodeBlock) { lines.push(Fence); inCodeBlock = false; ... }
CloseFence(st) ==
    IF st.inCodeBlock
    THEN [st EXCEPT !.lines = Append(@, Fence), !.inCodeBlock = FALSE,
                    !.previousKind = "code"]
    ELSE st

\* a block that is no list item and leaves the list state as it found it
ResetListNever(st) == st

ResetList(st) == [st EXCEPT !.listKind = "none", !.orderedIndex = 0]

HeaderTypes ==
    <<"header-one", "header-two", "header-three", "header-four",
      "header-five", "header-six">>

IsHeader(type) == \E i \in 1..Len(HeaderTypes) : HeaderTypes[i] = type

\* "# " .. "###### "
HeaderPrefix(type) ==
    LET level == CHOOSE i \in 1..Len(HeaderTypes) : HeaderTypes[i] = type
    IN  [i \in 1..level |-> "#"] \o <<" ">>

PlaceholderWord == <<"X", "I", "M", "G", "P", "H", "_">>

\* /^XIMGPH_\d+$/.test(t)
IsPlaceholder(t) ==
    /\ StartsWith(t, PlaceholderWord)
    /\ Len(t) > Len(PlaceholderWord)
    /\ \A i \in (Len(PlaceholderWord) + 1)..Len(t) : IsDigit(t[i])

PrefixEach(pieces, prefix) == [i \in 1..Len(pieces) |-> prefix \o pieces[i]]

\* one iteration of the loop of renderContentBlocks
RenderBlock(st, block, ctx) ==
    LET type == BlockType(block)
        rawText == BlockText(block)
        ranges == BlockRanges(block)
        text == IF type # "atomic" /\ type # "code-block"
                THEN renderInlineLinks(rawText, ranges, ctx.entityMap,
                                       ctx.entityLookup, ctx.mediaLinkMap)
                ELSE rawText
    IN  IF type = "code-block"
        THEN LET opened ==
                    IF ~st.inCodeBlock
                    THEN [st EXCEPT
                            !.lines = (IF Len(@) > 0 THEN Append(@, <<>>)
                                       ELSE @) \o <<Fence>>,
                            !.inCodeBlock = TRUE]
                    ELSE st
             IN  [opened EXCEPT !.lines = Append(@, text),
                                !.previousKind = "code",
                                !.listKind = "none",
                                !.orderedIndex = 0]
        ELSE IF type = "atomic"
        THEN LET quoted == pushBlock(ResetList(CloseFence(st)),
                                     collectTweetLines(block, ctx), "quote")
                 withMedia == pushTrailingMedia(quoted, block, ctx)
             IN  pushBlock(withMedia, collectLinkLines(block, ctx), "text")
        ELSE LET closed == CloseFence(st)
             IN  IF type = "unordered-list-item"
                 THEN pushTrailingMedia(
                        pushBlock([closed EXCEPT !.listKind = "unordered",
                                                 !.orderedIndex = 0],
                                  <<(<<"-", " ">> \o text)>>, "list"),
                        block, ctx)
                 ELSE IF type = "ordered-list-item"
                 THEN LET n == (IF closed.listKind # "ordered" THEN 0
                                ELSE closed.orderedIndex) + 1
                      IN  pushTrailingMedia(
                            pushBlock([closed EXCEPT !.listKind = "ordered",
                                                     !.orderedIndex = n],
                                      <<(NumStr(n) \o <<".", " ">> \o text)>>,
                                      "list"),
                            block, ctx)
                 ELSE IF IsHeader(type)
                 THEN pushTrailingMedia(
                        pushBlock(ResetList(closed),
                                  <<(HeaderPrefix(type) \o text)>>, "heading"),
                        block, ctx)
                 ELSE IF type = "blockquote"
                 THEN LET quoteLines == IF Len(text) > 0
                                        THEN SplitNewline(text)
                                        ELSE <<(<<>>)>>
                      IN  pushTrailingMedia(
                            pushBlock(ResetList(closed),
                                      PrefixEach(quoteLines, <<">", " ">>),
                                      "quote"),
                            block, ctx)
                 ELSE IF IsPlaceholder(Trim(text))
                 THEN pushTrailingMedia(ResetList(closed), block, ctx)
                 ELSE pushTrailingMedia(
                        pushBlock(ResetList(closed), <<text>>, "text"),
                        block, ctx)

\* the renderer's state on entry
InitialBlockState(used) ==
    [lines |-> <<>>, previousKind |-> "none", listKind |-> "none",
     orderedIndex |-> 0, inCodeBlock |-> FALSE, usedUrls |-> used]

\* a return that leaves an open fence as it is
EndFenceNever(st) == st

\* if (inCodeBlock) lines.push(Fence), after the loop
EndFence(st) ==
    IF st.inCodeBlock THEN [st EXCEPT !.lines = Append(@, Fence)] ELSE st

RECURSIVE RenderBlocksFrom(_, _, _)
RenderBlocksFrom(blocks, ctx, st) ==
    IF blocks = <<>> THEN EndFence(st)
    ELSE RenderBlocksFrom(Tail(blocks), ctx, RenderBlock(st, Head(blocks), ctx))

\* renderContentBlocks: the lines returned and the used set as it leaves it
renderContentBlocks(blocks, ctx, used) ==
    LET st == RenderBlocksFrom(blocks, ctx, InitialBlockState(used))
    IN  [lines |-> st.lines, usedUrls |-> st.usedUrls]

----------------------------------------------------------------------------
(* Document Assembler: formatArticleMarkdown *)

\* spelling of the property names JSON.stringify may have to print
KeyChars == [foo |-> <<"f", "o", "o">>]

Quoted(chars) == <<"\"">> \o chars \o <<"\"">>

\* JSON.stringify(value, null, 2) of null, of {} and of an object with one
\* string property (without characters that need escaping)
JsonStringify(value) ==
    IF value = Null THEN <<"n", "u", "l", "l">>
    ELSE IF ~IsObject(value)
         THEN (IF value.primitive = "string" THEN Quoted(value.chars)
               ELSE value.chars)
    ELSE IF DOMAIN value = {} THEN <<"{", "}">>
    ELSE LET f == CHOOSE f \in DOMAIN value : TRUE
         IN  <<"{", "\n", " ", " ">> \o Quoted(KeyChars[f]) \o <<":", " ">>
                \o Quoted(value[f]) \o <<"\n", "}">>

JsonFallback(value) ==
    Fence \o <<"j", "s", "o", "n", "\n">> \o JsonStringify(value)
        \o <<"\n">> \o Fence

\* typeof candidate.title === "string" ? candidate.title.trim() : ""
TitleOf(candidate) ==
    IF "title" \in DOMAIN candidate THEN Trim(candidate.title) ELSE <<>>

TitleLines(candidate) ==
    IF Truthy(TitleOf(candidate)) THEN <<(<<"#", " ">> \o TitleOf(candidate))>>
    ELSE <<>>

\* resolveMediaUrl(candidate.cover_media?.media_info) ?? null; the null is
\* Undefined here, as every absent string
CoverUrlOf(candidate) ==
    resolveMediaUrl(IF "cover_media" \in DOMAIN candidate
                    THEN MediaInfoOf(candidate.cover_media)
                    ELSE Null)

\* a used set that starts empty whatever the cover
NoInitialUsedUrls(cover) == {}

\* a used set that outlives the call: no new Set()
KeptUsedUrls(cover) ==
    usedUrls \cup (IF cover # Undefined /\ Truthy(cover) THEN {cover} ELSE {})

\* new Set() and, if (coverUrl), usedUrls.add(coverUrl)
InitialUsedUrls(cover) ==
    IF cover # Undefined /\ Truthy(cover) THEN {cover} ELSE {}

\* Array.isArray(blocks) && blocks.length > 0
HasBlocks(candidate) ==
    BlocksOf(candidate) # Undefined /\ Len(BlocksOf(candidate)) > 0

ContextOf(candidate, options) ==
    [entityMap |-> EntityMapOf(candidate),
     entityLookup |-> buildEntityLookup(EntityMapOf(candidate)),
     mediaById |-> buildMediaById(candidate),
     mediaLinkMap |-> buildMediaLinkMap(EntityMapOf(candidate)),
     options |-> options]

\* if (lines.length > 0) lines.push(""); lines.push(...section)
AppendSection(doc, section) ==
    (IF Len(doc) > 0 THEN Append(doc, <<>>) ELSE doc) \o section

\* the branches taken when there are no blocks
PlainTextLines(doc, candidate) ==
    IF "plain_text" \in DOMAIN candidate
    THEN AppendSection(doc, <<Trim(candidate.plain_text)>>)
    ELSE IF "preview_text" \in DOMAIN candidate
    THEN AppendSection(doc, <<Trim(candidate.preview_text)>>)
    ELSE doc

MediaHeading == <<"#", "#", " ", "M", "e", "d", "i", "a">>

\* a media section whose heading is printed whether or not a URL is left
GalleryLinesAlwaysHeading(mediaUrls) ==
    <<(<<>>), MediaHeading, (<<>>)>>
        \o [i \in 1..Len(mediaUrls) |-> ImageLine(<<>>, mediaUrls[i])]

GalleryLines(mediaUrls) ==
    IF mediaUrls = <<>> THEN <<>>
    ELSE <<(<<>>), MediaHeading, (<<>>)>>
            \o [i \in 1..Len(mediaUrls) |-> ImageLine(<<>>, mediaUrls[i])]

\* lines.join("\n").trimEnd()
Markdown(doc) == TrimEnd(Join(doc, <<"\n">>))

BlockStateNow ==
    [lines |-> rendered, previousKind |-> previousKind, listKind |-> listKind,
     orderedIndex |-> orderedIndex, inCodeBlock |-> inCodeBlock,
     usedUrls |-> usedUrls]

\* the renderer's variables take the values of st
SetBlockState(st) ==
    /\ rendered' = st.lines
    /\ previousKind' = st.previousKind
    /\ listKind' = st.listKind
    /\ orderedIndex' = st.orderedIndex
    /\ inCodeBlock' = st.inCodeBlock
    /\ usedUrls' = st.usedUrls
    /\ UNCHANGED atomicMediaQueue

\* formatArticleMarkdown on a value that is no article
FormatFallback ==
    /\ pc = "format"
    /\ coerceArticleEntity(article) = Null
    /\ ret' = [markdown |-> JsonFallback(article), coverUrl |-> Undefined]
    /\ pc' = "done"
    /\ UNCHANGED <<renderVars, others, article, args, resolverVars>>

\* formatArticleMarkdown up to the call of renderContentBlocks
FormatStart ==
    /\ pc = "format"
    /\ coerceArticleEntity(article) # Null
    /\ LET candidate == coerceArticleEntity(article)
       IN  /\ lines' = TitleLines(candidate)
           /\ coverUrl' = CoverUrlOf(candidate)
           /\ SetBlockState(InitialBlockState(
                                InitialUsedUrls(CoverUrlOf(candidate))))
           /\ blockIdx' = 1
           /\ pc' = IF HasBlocks(candidate) THEN "blocks" ELSE "text"
    /\ UNCHANGED <<others, article, args, ret, resolverVars>>

\* r.key, read without ?. by the filter of renderInlineLinks, on a null range
InlineThrows(block, ctx) ==
    /\ BlockType(block) \notin {"atomic", "code-block"}
    /\ ctx.entityMap # Undefined
    /\ \E i \in 1..Len(BlockRanges(block)) : BlockRanges(block)[i] = Null

\* block.entityRanges, read without ?., on a null block; then the call of
\* renderInlineLinks
BlockThrows(block, ctx) == block = Null \/ InlineThrows(block, ctx)

\* an iteration of the loop of renderContentBlocks that throws a TypeError,
\* which nothing up to the caller of formatArticleMarkdown catches
RenderBlockThrows ==
    /\ pc = "blocks"
    /\ blockIdx <= Len(BlocksOf(article))
    /\ BlockThrows(BlocksOf(article)[blockIdx],
                   ContextOf(article, args.options))
    /\ ret' = [thrown |-> "TypeError"]
    /\ pc' = "threw"
    /\ UNCHANGED <<renderVars, others, article, args, resolverVars>>

\* one iteration of the loop of renderContentBlocks
RenderNextBlock ==
    /\ pc = "blocks"
    /\ blockIdx <= Len(BlocksOf(article))
    /\ ~BlockThrows(BlocksOf(article)[blockIdx],
                    ContextOf(article, args.options))
    /\ SetBlockState(RenderBlock(BlockStateNow, BlocksOf(article)[blockIdx],
                                 ContextOf(article, args.options)))
    /\ blockIdx' = blockIdx + 1
    /\ UNCHANGED <<lines, coverUrl, pc, others, article, args, ret, resolverVars>>

\* renderContentBlocks returns and its lines join the document
RenderReturn ==
    /\ pc = "blocks"
    /\ blockIdx > Len(BlocksOf(article))
    /\ SetBlockState(EndFence(BlockStateNow))
    /\ lines' = IF Len(EndFence(BlockStateNow).lines) > 0
                THEN AppendSection(lines, EndFence(BlockStateNow).lines)
                ELSE lines
    /\ pc' = "gallery"
    /\ UNCHANGED <<coverUrl, blockIdx, others, article, args, ret, resolverVars>>

\* no blocks: plain_text or preview_text
FormatPlainText ==
    /\ pc = "text"
    /\ lines' = PlainTextLines(lines, article)
    /\ pc' = "gallery"
    /\ UNCHANGED <<usedUrls, coverUrl, blockIdx, blockVars, others, article, args,
                   ret, resolverVars>>

\* the trailing media section and the return
FormatGallery ==
    /\ pc = "gallery"
    /\ LET media == collectMediaUrls(article, usedUrls, coverUrl)
       IN  /\ usedUrls' = media.usedUrls
           /\ lines' = lines \o GalleryLines(media.urls)
           /\ ret' = [markdown |-> Markdown(lines \o GalleryLines(media.urls)),
                      coverUrl |-> coverUrl]
    /\ pc' = "done"
    /\ UNCHANGED <<coverUrl, blockIdx, blockVars, others, article, args, resolverVars>>

----------------------------------------------------------------------------
(* Bounds and input sets *)

MaxEntities == 3

\* one-character URLs; no character of them occurs in block text or in the
\* renderer's literals
Urls == {<<"P">>, <<"Q">>, <<"R">>}

\* declared logical keys: absent/empty, plain numbers, a number with a
\* trailing non-digit ("1x" parses to 1), and a key past every index
KeyStrings == {<<>>, <<"0">>, <<"1">>, <<"1", "x">>, <<"3">>}

SeqsUpTo(S, n) == UNION {[1..k -> S] : k \in 0..n}

NoArticle == Null

\* the resolver has not been called
ResolverIdle ==
    /\ ids = <<>>
    /\ cursor = 0
    /\ referencedTweets = <<>>
    /\ lookups = <<>>
    /\ logged = <<>>

\* formatArticleMarkdown has not been called
RenderIdle ==
    /\ lines = <<>>
    /\ usedUrls = {}
    /\ coverUrl = Undefined
    /\ blockIdx = 0
    /\ rendered = <<>>
    /\ previousKind = "none"
    /\ listKind = "none"
    /\ orderedIndex = 0
    /\ inCodeBlock = FALSE
    /\ atomicMediaQueue = <<>>

----------------------------------------------------------------------------
(* Specification SpecLookup: buildEntityLookup + resolveEntityEntry applied  *)
(* to every bounded entity map and key                                      *)

LookupValues == {Null, LinkEntity(<<"P">>), LinkEntity(<<"Q">>)}

LookupEntries ==
    {Null} \cup {[key |-> k, value |-> v] : k \in KeyStrings, v \in LookupValues}

LookupKeys == (0 - 1) .. (MaxEntities + 1)

InitLookup ==
    /\ article = NoArticle
    /\ ResolverIdle
    /\ RenderIdle
    /\ others = <<>>
    /\ args \in {[entityKey |-> k, entityMap |-> m] :
                    k \in LookupKeys,
                    m \in SeqsUpTo(LookupEntries, MaxEntities) \cup {Undefined}}
    /\ ret = Null
    /\ pc = "call"

ResolveCall ==
    /\ pc = "call"
    /\ ret' = [entry |-> resolveEntityEntry(args.entityKey, args.entityMap,
                                            buildEntityLookup(args.entityMap))]
    /\ pc' = "done"
    /\ UNCHANGED <<renderVars, others, article, args, resolverVars>>

NextLookup == ResolveCall

SpecLookup == InitLookup /\ [][NextLookup]_vars

\* the entries of an entity map in declaration order (none when it is absent)
Declared(entityMap) == IF entityMap = Undefined THEN <<>> ELSE entityMap

\* positions (1-based) of the entries that declare logical key k
Declaring(entityMap, k) ==
    {i \in 1..Len(Declared(entityMap)) :
        LET p == ParseInt(EntryKey(entityMap[i])) IN ~p.nan /\ p.n = k}

MinOf(S) == CHOOSE x \in S : \A y \in S : x <= y

\* C4: when two or more entries declare the resolved key, the entry returned
\* is the first-declared of them, and it is not a later, different one.
C4_FirstDeclaredWins ==
    pc = "done" =>
        LET d == Declaring(args.entityMap, args.entityKey)
        IN  Cardinality(d) >= 2 =>
                /\ ret.entry = args.entityMap[MinOf(d)]
                /\ \A j \in d : args.entityMap[j] # args.entityMap[MinOf(d)]
                                    => ret.entry # args.entityMap[j]

C4_Witness ==
    /\ pc = "done"
    /\ LET d == Declaring(args.entityMap, args.entityKey)
       IN  /\ Cardinality(d) >= 2
           /\ \E j \in d : args.entityMap[j] # args.entityMap[MinOf(d)]

\* C5: the entry returned is the first entry declaring the key as its logical
\* key if there is one; else the entry at that positional index if there is
\* one; else the raw map entry under String(key); Null (not found) when all
\* three fail.  The entry at index k is not returned for key k while a
\* different entry is the first to declare logical key k.
C5_LookupPriority ==
    pc = "done" =>
        LET m == Declared(args.entityMap)
            k == args.entityKey
            d == Declaring(m, k)
            atIndex == IF k >= 0 /\ k < Len(m) THEN m[k + 1] ELSE Null
            raw == IF k \in 0..(Len(m) - 1) THEN m[k + 1] ELSE Null
        IN  /\ d # {} => ret.entry = m[MinOf(d)]
            /\ (d = {} /\ atIndex # Null) => ret.entry = atIndex
            /\ (d = {} /\ atIndex = Null) => ret.entry = raw
            /\ (d = {} /\ atIndex = Null /\ raw = Null) => ret.entry = Null
            /\ (d # {} /\ atIndex # m[MinOf(d)]) => ret.entry # atIndex

\* the positional entry and the logical-key entry for the key differ, and the
\* logical-key entry was returned
C5_Witness ==
    /\ pc = "done"
    /\ LET m == args.entityMap
           k == args.entityKey
           d == Declaring(m, k)
       IN  /\ d # {}
           /\ k >= 0 /\ k < Len(m)
           /\ m[k + 1] # Null
           /\ m[k + 1] # m[MinOf(d)]
           /\ ret.entry = m[MinOf(d)]

----------------------------------------------------------------------------
(* Specification SpecInline: renderInlineLinks applied to a block text and   *)
(* every bounded sequence of entity ranges, in the given order and in a      *)
(* permuted order                                                          *)

MaxText == 2

MaxRanges == 2

Alphabet == <<"a", "b", "c", "d", "e", "f", "g", "h">>

InlineText == SubSeq(Alphabet, 1, MaxText)

RangeLengths == {1, 2}

\* keys 0 and 1 are links, key 2 is a quoted post (no URL to link to)
InlineEntityMap ==
    << [key |-> <<"0">>, value |-> LinkEntity(<<"P">>)],
       [key |-> <<"1">>, value |-> LinkEntity(<<"Q">>)],
       [key |-> <<"2">>, value |-> TweetEntity(<<"7">>)] >>

\* ranges the filter keeps, some reaching past the end of the text, and two
\* it drops (no key; zero length)
InlineRanges ==
    {[key |-> k, offset |-> o, length |-> l] :
        k \in 0..2, o \in 0..(MaxText + 1), l \in RangeLengths}
    \cup {[offset |-> 0, length |-> 1], [key |-> 0, offset |-> 0, length |-> 0]}

Orderings(n) ==
    {p \in [1..n -> 1..n] : \A i, j \in 1..n : p[i] = p[j] => i = j}

Permuted(s, p) == [i \in 1..Len(s) |-> s[p[i]]]

InitInline ==
    /\ article = NoArticle
    /\ ResolverIdle
    /\ RenderIdle
    /\ others = <<>>
    /\ args \in {[text |-> InlineText, entityRanges |-> r,
                  entityMap |-> InlineEntityMap] :
                    r \in SeqsUpTo(InlineRanges, MaxRanges)}
    /\ ret = Null
    /\ pc = "call"

InlineOut(ranges) ==
    renderInlineLinks(args.text, ranges, args.entityMap,
                      buildEntityLookup(args.entityMap),
                      buildMediaLinkMap(args.entityMap))

RenderInlineCall ==
    /\ pc = "call"
    /\ ret' = [out |-> InlineOut(args.entityRanges)]
    /\ pc' = "rendered"
    /\ UNCHANGED <<renderVars, others, article, args, resolverVars>>

RenderInlinePermuted ==
    /\ pc = "rendered"
    /\ \E p \in Orderings(Len(args.entityRanges)) :
          ret' = [out |-> ret.out,
                  order |-> Permuted(args.entityRanges, p),
                  permuted |-> InlineOut(Permuted(args.entityRanges, p))]
    /\ pc' = "done"
    /\ UNCHANGED <<renderVars, others, article, args, resolverVars>>

NextInline == RenderInlineCall \/ RenderInlinePermuted

SpecInline == InitInline /\ [][NextInline]_vars

\* the ranges of the call that pass the filter
ValidOf(ranges) == FilterValid(ranges)

\* the URL a range is linked to (Undefined when the range is left as text)
UrlOf(r) ==
    RangeUrl(r.key, args.entityMap, buildEntityLookup(args.entityMap),
             buildMediaLinkMap(args.entityMap))

IsApplied(r) == UrlOf(r) # Undefined /\ Truthy(UrlOf(r))

DistinctOffsets(rs) ==
    \A i, j \in 1..Len(rs) : i # j => rs[i].offset # rs[j].offset

\* the one arrangement of rs with strictly descending offsets
DescendingOrder(rs) ==
    CHOOSE s \in {Permuted(rs, p) : p \in Orderings(Len(rs))} :
        \A i \in 1..(Len(s) - 1) : s[i].offset > s[i + 1].offset

\* C6 as claimed: every ordering of the input ranges renders the same string,
\* ranges sharing an offset included.
C6_AnyOrderSameOutput ==
    pc = "done" => ret.permuted = ret.out

\* C6 amended: when no two valid ranges share an offset, every ordering of the
\* input ranges renders the same string, the one obtained by applying the
\* valid ranges in descending-offset order.
C6_DistinctOffsetsSameOutput ==
    (pc = "done" /\ DistinctOffsets(ValidOf(args.entityRanges))) =>
        /\ ret.permuted = ret.out
        /\ ret.out = ApplyRanges(args.text,
                                 DescendingOrder(ValidOf(args.entityRanges)),
                                 args.entityMap,
                                 buildEntityLookup(args.entityMap),
                                 buildMediaLinkMap(args.entityMap))

\* two applied ranges at different offsets, given in ascending order and
\* rendered again in the opposite order
C6_Witness ==
    /\ pc = "done"
    /\ Len(args.entityRanges) = 2
    /\ \A i \in 1..2 : ValidRange(args.entityRanges[i])
                        /\ IsApplied(args.entityRanges[i])
    /\ args.entityRanges[1].offset < args.entityRanges[2].offset
    /\ ret.order # args.entityRanges
    /\ ret.out # args.text

Link(linkText, url) == <<"[">> \o linkText \o <<"]", "(">> \o url \o <<")">>

Occurs(sub, s) ==
    \E i \in 0..(Len(s) - Len(sub)) : SubSeq(s, i + 1, i + Len(sub)) = sub

\* the applied ranges of the call, in input order
RECURSIVE AppliedOf(_)
AppliedOf(rs) ==
    IF rs = <<>> THEN <<>>
    ELSE (IF ValidRange(Head(rs)) /\ IsApplied(Head(rs)) THEN <<Head(rs)>>
          ELSE <<>>) \o AppliedOf(Tail(rs))

Disjoint(rs) ==
    \A i, j \in 1..Len(rs) :
        i < j => \/ rs[i].offset + rs[i].length <= rs[j].offset
                 \/ rs[j].offset + rs[j].length <= rs[i].offset

InText(rs, text) ==
    \A i \in 1..Len(rs) : rs[i].offset + rs[i].length <= Len(text)

\* the text read left to right, each applied range replaced by a hyperlink
\* around the characters it covers and every other character kept
RECURSIVE WrappedFrom(_, _, _)
WrappedFrom(text, pos, rs) ==
    IF pos >= Len(text) THEN <<>>
    ELSE IF \E i \in 1..Len(rs) : rs[i].offset = pos
         THEN LET r == rs[CHOOSE i \in 1..Len(rs) : rs[i].offset = pos]
              IN  Link(Slice(text, pos, pos + r.length), UrlOf(r))
                    \o WrappedFrom(text, pos + r.length, rs)
         ELSE <<text[pos + 1]>> \o WrappedFrom(text, pos + 1, rs)

\* C7 as claimed: for every set of valid ranges, nested and overlapping ones
\* included, each inserted hyperlink wraps exactly the original characters of
\* its own range.
C7_EveryRangeWrapsItsSlice ==
    pc = "rendered" =>
        \A i \in 1..Len(AppliedOf(args.entityRanges)) :
            LET r == AppliedOf(args.entityRanges)[i]
            IN  Occurs(Link(Slice(args.text, r.offset, r.offset + r.length),
                            UrlOf(r)),
                       ret.out)

\* C7 amended: when the applied ranges are pairwise non-overlapping (adjacent
\* ones allowed) and lie within the text, each inserted hyperlink wraps
\* exactly the original characters of its own range and all text outside the
\* applied ranges is unchanged.
C7_DisjointRangesWrapTheirSlices ==
    (/\ pc = "rendered"
     /\ Disjoint(AppliedOf(args.entityRanges))
     /\ InText(AppliedOf(args.entityRanges), args.text)) =>
        ret.out = WrappedFrom(args.text, 0, AppliedOf(args.entityRanges))

\* two adjacent applied ranges given in ascending order
C7_Witness ==
    /\ pc = "rendered"
    /\ Len(AppliedOf(args.entityRanges)) = 2
    /\ Disjoint(AppliedOf(args.entityRanges))
    /\ InText(AppliedOf(args.entityRanges), args.text)
    /\ args.entityRanges[1].offset + args.entityRanges[1].length
            = args.entityRanges[2].offset
    /\ ret.out # args.text

----------------------------------------------------------------------------
(* Specification SpecMergeExample: buildMediaLinkMap applied to the entity   *)
(* maps of the example: Media entities with logical keys 1, 3, 5 and Link    *)
(* entities with logical keys 2, 4, in every positional arrangement, alone   *)
(* or with one more entry that is neither                                   *)

ExampleEntries ==
    << [key |-> <<"1">>, value |-> MediaEntity(<<[mediaId |-> "m1"]>>)],
       [key |-> <<"3">>, value |-> MediaEntity(<<[mediaId |-> "m3"]>>)],
       [key |-> <<"5">>, value |-> MediaEntity(<<[mediaId |-> "m5"]>>)],
       [key |-> <<"2">>, value |-> LinkEntity(<<"P">>)],
       [key |-> <<"4">>, value |-> LinkEntity(<<"Q">>)] >>

ExampleFiller == [value |-> TweetEntity(<<"7">>)]

ExampleLayouts ==
    {Permuted(ExampleEntries, p) : p \in Orderings(Len(ExampleEntries))}
    \cup {Permuted(ExampleEntries \o <<ExampleFiller>>, p) :
            p \in Orderings(Len(ExampleEntries) + 1)}

InitMergeExample ==
    /\ article = NoArticle
    /\ ResolverIdle
    /\ RenderIdle
    /\ others = <<>>
    /\ args \in {[entityMap |-> m] : m \in ExampleLayouts}
    /\ ret = Null
    /\ pc = "call"

MergeCall ==
    /\ pc = "call"
    /\ ret' = [map |-> buildMediaLinkMap(args.entityMap)]
    /\ pc' = "done"
    /\ UNCHANGED <<renderVars, others, article, args, resolverVars>>

NextMergeExample == MergeCall

SpecMergeExample == InitMergeExample /\ [][NextMergeExample]_vars

\* the positional index of the entry declaring the key string k
IdxOfKey(entityMap, k) ==
    (CHOOSE i \in 1..Len(entityMap) : EntryKey(entityMap[i]) = k) - 1

\* C8 as claimed: 1 -> URL of link 2, 3 -> URL of link 4, 5 -> URL of link 2.
C8_WrapAroundMapping ==
    pc = "done" =>
        /\ MapGetStr(ret.map, 1) = <<"P">>
        /\ MapGetStr(ret.map, 3) = <<"Q">>
        /\ MapGetStr(ret.map, 5) = <<"P">>

\* C8 amended: media 1 is paired with link 2 and media 3 with link 4, and
\* media 5 is left unpaired (the loop ends once the links are exhausted):
\* the map holds 3 -> URL of link 4; it holds 1 -> URL of link 2 unless media
\* 3 sits at positional index 1, whose positional entry then overwrites it
\* with the URL of link 4; it holds an entry for 5 only when media 1 or media
\* 3 sits at positional index 5, the entry being that media's link; and no
\* entry is recorded under the positional index of media 5.
C8_NoWrapAroundMapping ==
    pc = "done" =>
        LET m == args.entityMap
            i1 == IdxOfKey(m, <<"1">>)
            i3 == IdxOfKey(m, <<"3">>)
            i5 == IdxOfKey(m, <<"5">>)
        IN  /\ MapGetStr(ret.map, 3) = <<"Q">>
            /\ MapGetStr(ret.map, 1) = IF i3 = 1 THEN <<"Q">> ELSE <<"P">>
            /\ MapGetStr(ret.map, 5) = IF i1 = 5 THEN <<"P">>
                                       ELSE IF i3 = 5 THEN <<"Q">>
                                       ELSE Undefined
            /\ MapGetStr(ret.map, i1) = IF i1 = 3 \/ i1 = i3 THEN <<"Q">>
                                        ELSE <<"P">>
            /\ MapGetStr(ret.map, i3) = <<"Q">>
            /\ i5 \notin {1, 3} => MapGetStr(ret.map, i5) = Undefined

\* the five entries declared in key order (media 1, link 2, media 3, link 4,
\* media 5): media 5 has no entry
C8_Witness ==
    /\ pc = "done"
    /\ args.entityMap = <<ExampleEntries[1], ExampleEntries[4], ExampleEntries[2],
                          ExampleEntries[5], ExampleEntries[3]>>
    /\ MapGetStr(ret.map, 1) = <<"P">>
    /\ MapGetStr(ret.map, 3) = <<"Q">>
    /\ MapGetStr(ret.map, 5) = Undefined

----------------------------------------------------------------------------
(* Specification SpecResolver: resolveReferencedTweetsFromArticle on every   *)
(* bounded entity map, each lookup resolving or rejecting                   *)

TweetIds == {<<"7">>, <<"8">>}

ResolverValues ==
    {Null, LinkEntity(<<"P">>), TweetEntity(<<>>),
     [type |-> "TWEET", data |-> [url |-> <<"P">>]]}
    \cup {TweetEntity(id) : id \in TweetIds}

ResolverEntries == {Null} \cup {[value |-> v] : v \in ResolverValues}

ResolverArticles ==
    {Null, [title |-> <<"T">>]}
    \cup {[content_state |-> [entityMap |-> m]] :
            m \in SeqsUpTo(ResolverEntries, MaxEntities)}

InitResolver ==
    /\ article \in ResolverArticles
    /\ args = Null
    /\ ret = Null
    /\ pc = "resolve"
    /\ ResolverIdle
    /\ RenderIdle
    /\ others = <<>>

NextResolver ==
    \/ ResolveStart
    \/ IssueLookup
    \/ LookupSucceeds
    \/ LookupFails
    \/ ResolveReturn

SpecResolver == InitResolver /\ [][NextResolver]_vars

\* the positions (1-based) of the Tweet-type entities of the document's entity
\* map that carry a non-empty reference ID
RefPositions(doc) ==
    LET m == Declared(EntityMapOf(coerceArticleEntity(doc)))
    IN  {i \in 1..Len(m) :
            /\ EntryValue(m[i]) # Null
            /\ EntryValue(m[i]).type = "TWEET"
            /\ Truthy(DataTweetId(EntryValue(m[i])))}

RefIdAt(doc, i) == DataTweetId(EntryValue(EntityMapOf(doc)[i]))

\* the unique reference IDs of the document
UniqueRefIds(doc) == {RefIdAt(doc, i) : i \in RefPositions(doc)}

\* the positions at which a reference ID appears for the first time
FirstAppearances(doc) ==
    {i \in RefPositions(doc) :
        \A j \in RefPositions(doc) : j < i => RefIdAt(doc, j) # RefIdAt(doc, i)}

\* the k-th smallest element of a set of numbers
RECURSIVE KthOf(_, _)
KthOf(S, k) == IF k = 1 THEN MinOf(S) ELSE KthOf(S \ {MinOf(S)}, k - 1)

\* the unique reference IDs in first-appearance order
FirstAppearanceOrder(doc) ==
    [k \in 1..Cardinality(FirstAppearances(doc)) |->
        RefIdAt(doc, KthOf(FirstAppearances(doc), k))]

IsPrefix(s, t) == Len(s) <= Len(t) /\ SubSeq(t, 1, Len(s)) = s

LookupIds == [i \in 1..Len(lookups) |-> lookups[i].id]

\* C9: the resolver never rejects; what it returns has exactly one entry per
\* unique reference ID; every ID whose lookup failed maps to the degraded
\* record holding only the ID and the generic ID-only URL, and its failure was
\* logged; and every unique ID was looked up, those after a failure included.
C9_FailuresIsolated ==
    /\ pc # "rejected"
    /\ Len(logged) = Cardinality({i \in 1..Len(lookups) :
                                    lookups[i].outcome = "rejected"})
    /\ \A i \in 1..Len(lookups) :
          lookups[i].outcome = "rejected" =>
             /\ referencedTweets[lookups[i].id]
                   = [id |-> lookups[i].id,
                      url |-> GenericStatusPrefix \o lookups[i].id]
             /\ \E j \in 1..Len(logged) :
                   IsPrefix(FailPrefix \o lookups[i].id, logged[j])
    /\ pc = "returned" =>
          /\ DOMAIN ret.referencedTweets = UniqueRefIds(article)
          /\ ret.referencedTweets = referencedTweets
          /\ {lookups[i].id : i \in 1..Len(lookups)} = UniqueRefIds(article)

\* the first lookup failed, a later one succeeded, and the resolver returned
C9_Witness ==
    /\ pc = "returned"
    /\ Len(lookups) >= 2
    /\ lookups[1].outcome = "rejected"
    /\ lookups[2].outcome = "resolved"
    /\ "authorName" \in DOMAIN ret.referencedTweets[lookups[2].id]
    /\ DOMAIN ret.referencedTweets[lookups[1].id] = {"id", "url"}

\* C10: the lookups issued are the unique reference IDs of the Tweet entities
\* in first-appearance order: a prefix of that sequence at any moment and all
\* of it at return, so each unique ID is looked up exactly once; at most one
\* lookup is pending, and every lookup before the last one issued has settled.
C10_SequentialLookups ==
    /\ IsPrefix(LookupIds, FirstAppearanceOrder(article))
    /\ pc = "returned" => LookupIds = FirstAppearanceOrder(article)
    /\ \A i, j \in 1..Len(lookups) : lookups[i].id = lookups[j].id => i = j
    /\ Cardinality(Pending(lookups)) <= 1
    /\ \A i \in 1..(Len(lookups) - 1) : lookups[i].outcome # "pending"
    /\ pc = "await" <=> Pending(lookups) # {}

\* an entity map in which an ID appears twice and another ID once: two
\* lookups were issued, the second one pending after the first has settled
C10_Witness ==
    /\ pc = "await"
    /\ Len(lookups) = 2
    /\ Cardinality(RefPositions(article)) = 3
    /\ lookups[1].outcome # "pending"
    /\ lookups[2].outcome = "pending"

----------------------------------------------------------------------------
(* Specification SpecFormat: formatArticleMarkdown on bounded documents: a   *)
(* title, an optional cover, two media entities, an entity map of Media,     *)
(* Link and Tweet entities and blocks that reference them; the renderer      *)
(* advances a block at a time                                               *)

MaxBlocks == 2

MaxFormatEntities == 2

\* media m1 is the still P, m2 a video whose best variant is Q, m3 has only
\* the preview R
FormatMediaEntities ==
    <<[media_id |-> "m1", media_info |-> [original_img_url |-> <<"P">>]],
      [media_id |-> "m2",
       media_info |->
          [variants |->
              <<[content_type |-> <<"v", "i", "d", "e", "o", "/", "m", "p", "4">>,
                 bit_rate |-> 1, url |-> <<"V">>],
                [content_type |-> <<"v", "i", "d", "e", "o", "/", "m", "p", "4">>,
                 bit_rate |-> 2, url |-> <<"Q">>]>>]],
      [media_id |-> "m3",
       media_info |-> [preview_image |-> [original_img_url |-> <<"R">>]]]>>

\* no cover, or a cover that is also media m1
FormatCovers == {Null, [media_info |-> [original_img_url |-> <<"P">>]]}

\* a Link to the URL of media m1, a Media entity attaching m1 and m2, a quoted
\* post
FormatValues ==
    {LinkEntity(<<"P">>),
     MediaEntity(<<[mediaId |-> "m1"], [media_id |-> "m2"]>>),
     TweetEntity(<<"7">>)}

\* the entity maps: entry k-1 declares the logical key String(k-1)
FormatEntityMaps ==
    UNION {{[k \in 1..n |-> [key |-> NumStr(k - 1), value |-> v[k]]] :
                v \in [1..n -> FormatValues]} : n \in 0..MaxFormatEntities}

FormatKeys == {0, 1}

FormatRangeLists ==
    {<<>>} \cup {<<[key |-> k, offset |-> 0, length |-> 1]>> : k \in FormatKeys}

\* text blocks with or without a range, atomic blocks with one, a line of
\* code, a list item
FormatBlocks ==
    {[type |-> "unstyled", text |-> <<"a", "b">>, entityRanges |-> r] :
        r \in FormatRangeLists}
    \cup {[type |-> "atomic", text |-> <<" ">>, entityRanges |-> r] :
            r \in FormatRangeLists \ {<<>>}}
    \cup {[type |-> "code-block", text |-> <<"c">>],
          [type |-> "ordered-list-item", text |-> <<"a">>]}

FormatArticles ==
    {Null, [foo |-> <<"v">>], [title |-> <<"T">>, plain_text |-> <<"a", " ">>]}
    \cup {IF c = Null
          THEN [title |-> <<"T">>, media_entities |-> FormatMediaEntities,
                content_state |-> [blocks |-> b, entityMap |-> m]]
          ELSE [title |-> <<"T">>, media_entities |-> FormatMediaEntities,
                cover_media |-> c,
                content_state |-> [blocks |-> b, entityMap |-> m]] :
            c \in FormatCovers, b \in SeqsUpTo(FormatBlocks, MaxBlocks),
            m \in FormatEntityMaps}

\* what the resolver hands over for the quoted post 7
FormatReferenced ==
    (<<"7">> :> [id |-> <<"7">>,
                 url |-> XPrefix \o <<"h">> \o StatusInfix \o <<"7">>,
                 authorName |-> <<"N">>, authorUsername |-> <<"h">>,
                 text |-> <<"s">>])

FormatOptions == {[referencedTweets |-> FormatReferenced]}

InitFormat ==
    /\ article \in FormatArticles
    /\ args \in {[options |-> o] : o \in FormatOptions}
    /\ ret = Null
    /\ pc = "format"
    /\ ResolverIdle
    /\ RenderIdle
    /\ others = <<>>

NextFormat ==
    \/ FormatFallback
    \/ FormatStart
    \/ RenderNextBlock
    \/ RenderReturn
    \/ FormatPlainText
    \/ FormatGallery

SpecFormat == InitFormat /\ [][NextFormat]_vars

\* the URLs a bounded document can mention
FormatUrls ==
    Urls \cup {<<"V">>, GenericStatusPrefix \o <<"7">>, FormatReferenced[<<"7">>].url}

Occurrences(u, s) ==
    Cardinality({i \in 0..(Len(s) - Len(u)) : SubSeq(s, i + 1, i + Len(u)) = u})

\* the line is an image embed ![...](u)
IsImageOf(line, u) ==
    /\ Len(line) >= Len(u) + 5
    /\ StartsWith(line, <<"!", "[">>)
    /\ SubSeq(line, Len(line) - Len(u) - 2, Len(line))
            = <<"]", "(">> \o u \o <<")">>

\* the URLs embedded as images by the lines of doc
Embedded(doc) ==
    {u \in FormatUrls : \E i \in 1..Len(doc) : IsImageOf(doc[i], u)}

\* the lines of the returned Markdown
OutLines == SplitNewline(ret.markdown)

\* where the gallery heading stands in doc, 0 when there is no gallery
HeadingAt(doc) ==
    IF \E i \in 1..Len(doc) : doc[i] = MediaHeading
    THEN CHOOSE i \in 1..Len(doc) : doc[i] = MediaHeading
    ELSE 0

BodyOf(doc) ==
    IF HeadingAt(doc) = 0 THEN doc ELSE SubSeq(doc, 1, HeadingAt(doc) - 1)

GalleryOf(doc) ==
    IF HeadingAt(doc) = 0 THEN <<>>
    ELSE SubSeq(doc, HeadingAt(doc) + 1, Len(doc))

\* the kind of the entity that the ranges of block i refer to, if any
BlockRefers(i, type) ==
    LET block == BlocksOf(article)[i]
        map == EntityMapOf(article)
    IN  \E j \in 1..Len(BlockRanges(block)) :
            LET k == BlockRanges(block)[j].key
            IN  k < Len(map) /\ map[k + 1].value.type = type

IsDocument == article # Null /\ "content_state" \in DOMAIN article

\* C1 as stated: no URL occurs more than once in the returned Markdown
C1_NoUrlTwice ==
    pc = "done" =>
        \A u \in FormatUrls : Occurrences(u, ret.markdown) <= 1

\* C1: in the returned Markdown no URL is embedded as an image more than
\* once, be it by two blocks of the body or by a block and the gallery
C1_NoImageEmbeddedTwice ==
    pc = "done" =>
        \A out \in {OutLines} : \A u \in FormatUrls :
            Cardinality({i \in 1..Len(out) : IsImageOf(out[i], u)}) <= 1

\* two blocks attach the same media, which the body embeds once, and the
\* gallery lists what is left
C1_Witness ==
    /\ pc = "done"
    /\ IsDocument
    /\ \E i, j \in 1..Len(BlocksOf(article)) :
            i < j /\ BlockRefers(i, "MEDIA") /\ BlockRefers(j, "MEDIA")
    /\ \E out \in {OutLines} :
            /\ <<"P">> \in Embedded(BodyOf(out))
            /\ <<"R">> \in Embedded(GalleryOf(out))

CoverSet == IF coverUrl # Undefined /\ Truthy(coverUrl) THEN {coverUrl} ELSE {}

\* C2 as stated: every URL in the output before the gallery is built is in the
\* used set, and the gallery emits none that the body holds or the set records
C2_EveryEmittedUrlRecorded ==
    /\ pc = "gallery" =>
            \A text \in {Join(lines, <<"\n">>)} : \A u \in FormatUrls :
                Occurs(u, text) => u \in usedUrls
    /\ pc = "done" =>
            \A text \in {Join(BodyOf(lines), <<"\n">>)} :
                \A u \in Embedded(GalleryOf(lines)) :
                    ~Occurs(u, text) /\ u \notin CoverSet

\* C2: when the gallery is about to be built the used set holds exactly the
\* URLs the body embeds as images and the cover URL, and the gallery emits
\* none of them
C2_EmbedsAndCoverRecorded ==
    /\ pc = "gallery" => usedUrls = Embedded(lines) \cup CoverSet
    /\ pc = "done" =>
            /\ Embedded(GalleryOf(lines))
                    \cap (Embedded(BodyOf(lines)) \cup CoverSet) = {}
            /\ usedUrls = Embedded(lines) \cup CoverSet

\* a cover, a body that embeds Q and links to the cover URL, a gallery
C2_Witness ==
    /\ pc = "done"
    /\ coverUrl = <<"P">>
    /\ <<"Q">> \in Embedded(BodyOf(lines))
    /\ \E i \in 1..Len(BodyOf(lines)) : Occurs(<<"P">>, BodyOf(lines)[i])
    /\ Embedded(GalleryOf(lines)) = {<<"R">>}

HasCover == IsDocument /\ "cover_media" \in DOMAIN article

\* C3: the URL of the cover is in the used set from before the first block
\* is rendered, no line of the renderer, of the document or of the returned
\* Markdown embeds it as an image, and it is the coverUrl returned
C3_CoverMarkedUsed ==
    HasCover =>
        LET cover == article.cover_media.media_info.original_img_url
        IN  /\ pc # "format" => cover \in usedUrls /\ coverUrl = cover
            /\ cover \notin Embedded(rendered)
            /\ cover \notin Embedded(lines)
            /\ pc = "done" =>
                    /\ ret.coverUrl = cover
                    /\ \A out \in {OutLines} : cover \notin Embedded(out)

\* the cover is also media m1, a block attaches m1, and the gallery is there
C3_Witness ==
    /\ pc = "done"
    /\ HasCover
    /\ \E i \in 1..Len(BlocksOf(article)) : BlockRefers(i, "MEDIA")
    /\ \E out \in {OutLines} :
            /\ <<"Q">> \in Embedded(BodyOf(out))
            /\ Embedded(GalleryOf(out)) # {}

----------------------------------------------------------------------------
(* Specification SpecRobust: formatArticleMarkdown on partial and malformed  *)
(* input: values that are no document, null and non-object blocks, blocks    *)
(* without entityRanges, ranges that are null, lack a key or point nowhere,  *)
(* entity-map entries without a value                                       *)

\* entry 0 has no value, entry 1 is a Link
RobustEntityMap ==
    <<[key |-> <<"0">>], [key |-> <<"1">>, value |-> LinkEntity(<<"P">>)]>>

DanglingKey == 7

RobustRangeLists ==
    {<<[key |-> 1, offset |-> 0, length |-> 1]>>,
     <<[key |-> 0, offset |-> 0, length |-> 1]>>,
     <<[key |-> DanglingKey, offset |-> 0, length |-> 1]>>,
     <<[offset |-> 0, length |-> 1]>>,
     <<Null>>}

RobustBlocks ==
    {Null, [primitive |-> "number", chars |-> <<"5">>],
     [type |-> "unstyled", text |-> <<"a", "b">>]}
    \cup {[type |-> t, text |-> <<"a", "b">>, entityRanges |-> r] :
            t \in {"unstyled", "atomic"}, r \in RobustRangeLists}

RobustArticles ==
    {Null, <<>>, [foo |-> <<"v">>],
     [primitive |-> "string", chars |-> <<"v">>],
     [primitive |-> "number", chars |-> <<"5">>],
     [preview_text |-> <<" ", "a">>]}
    \cup {[title |-> <<"T">>, content_state |-> [blocks |-> b]] :
            b \in SeqsUpTo(RobustBlocks, MaxBlocks)}
    \cup {[title |-> <<"T">>,
           content_state |-> [blocks |-> b, entityMap |-> RobustEntityMap]] :
            b \in SeqsUpTo(RobustBlocks, MaxBlocks)}

InitRobust ==
    /\ article \in RobustArticles
    /\ args = [options |-> <<>>]
    /\ ret = Null
    /\ pc = "format"
    /\ ResolverIdle
    /\ RenderIdle
    /\ others = <<>>

NextRobust == NextFormat \/ RenderBlockThrows

SpecRobust == InitRobust /\ [][NextRobust]_vars

\* C11: formatArticleMarkdown never throws, and what it returns holds a
\* Markdown string, whatever the input
C11_NeverThrows ==
    /\ pc # "threw"
    /\ pc = "done" => "markdown" \in DOMAIN ret

\* the input has none of the recognisable fields, or is no object
Unrecognised ==
    \/ article = Null
    \/ "primitive" \in DOMAIN article
    \/ DOMAIN article \cap {"title", "plain_text", "preview_text",
                            "content_state"} = {}

\* the pretty-printed JSON text of the unrecognised inputs, written out
PrettyPrinted ==
    IF article = Null THEN <<"n", "u", "l", "l">>
    ELSE IF article = <<>> THEN <<"{", "}">>
    ELSE IF "foo" \in DOMAIN article
         THEN <<"{", "\n", " ", " ", "\"", "f", "o", "o", "\"", ":", " ",
                "\"", "v", "\"", "\n", "}">>
    ELSE IF article.primitive = "string" THEN <<"\"", "v", "\"">>
    ELSE <<"5">>

\* C12: for an input without any recognisable field the Markdown returned is
\* the json fence, the pretty-printed input and the closing fence and nothing
\* else, and coverUrl is null; nothing is thrown
C12_JsonFallback ==
    Unrecognised =>
        /\ pc \in {"format", "done"}
        /\ pc = "done" =>
            /\ ret.markdown =
                  <<"U+0060", "U+0060", "U+0060", "j", "s", "o", "n", "\n">>
                    \o PrettyPrinted
                    \o <<"\n", "U+0060", "U+0060", "U+0060">>
            /\ ret.coverUrl = Undefined

\* the empty object has been converted: the block holds exactly {}
C12_Witness ==
    /\ pc = "done"
    /\ article = <<>>
    /\ ret.markdown = <<"U+0060", "U+0060", "U+0060", "j", "s", "o", "n", "\n",
                        "{", "}", "\n", "U+0060", "U+0060", "U+0060">>

----------------------------------------------------------------------------
(* Specification SpecAgain: formatArticleMarkdown called several times in a  *)
(* row, on the same or on another document; the variables keep what the      *)
(* previous call left in them until the code assigns them                   *)

MaxCalls == 3

AgainBlocks ==
    <<[type |-> "unstyled", text |-> <<"a", "b">>,
       entityRanges |-> <<[key |-> 0, offset |-> 0, length |-> 1]>>],
      [type |-> "atomic", text |-> <<" ">>,
       entityRanges |-> <<[key |-> 1, offset |-> 0, length |-> 1]>>],
      [type |-> "ordered-list-item", text |-> <<"a">>],
      [type |-> "code-block", text |-> <<"c">>]>>

AgainEntityMap ==
    <<[key |-> <<"0">>,
       value |-> MediaEntity(<<[mediaId |-> "m1"], [media_id |-> "m2"]>>)],
      [key |-> <<"1">>, value |-> TweetEntity(<<"7">>)]>>

\* no document, a text-only document, a document without and with a cover
AgainArticles ==
    {Null,
     [title |-> <<"T">>, plain_text |-> <<"a", " ">>],
     [title |-> <<"T">>, media_entities |-> FormatMediaEntities,
      content_state |-> [blocks |-> AgainBlocks, entityMap |-> AgainEntityMap]],
     [title |-> <<"T">>, media_entities |-> FormatMediaEntities,
      cover_media |-> [media_info |-> [original_img_url |-> <<"P">>]],
      content_state |-> [blocks |-> AgainBlocks, entityMap |-> AgainEntityMap]]}

AgainOptions == {<<>>, [referencedTweets |-> FormatReferenced]}

InitAgain ==
    /\ article \in AgainArticles
    /\ args \in {[options |-> o] : o \in AgainOptions}
    /\ ret = Null
    /\ pc = "format"
    /\ ResolverIdle
    /\ RenderIdle
    /\ others = <<>>

\* the caller keeps what was returned and calls formatArticleMarkdown again
CallAgain ==
    /\ pc = "done"
    /\ Len(others) < MaxCalls - 1
    /\ others' = Append(others, [article |-> article, args |-> args, ret |-> ret])
    /\ article' \in AgainArticles
    /\ args' \in {[options |-> o] : o \in AgainOptions}
    /\ ret' = Null
    /\ pc' = "format"
    /\ UNCHANGED <<renderVars, resolverVars>>

NextAgain == NextFormat \/ CallAgain

SpecAgain == InitAgain /\ [][NextAgain]_vars

\* C13: a call returns what every earlier call on the same document with the
\* same referenced-content map returned, Markdown and coverUrl alike,
\* whatever was converted in between
C13_SameInputSameOutput ==
    pc = "done" =>
        \A i \in 1..Len(others) :
            (others[i].article = article /\ others[i].args = args)
                => others[i].ret = ret

\* the third call repeats the first on a document with media, after a call on
\* another document that left URLs in the used set
C13_Witness ==
    /\ pc = "done"
    /\ Len(others) = 2
    /\ others[1].article = article /\ others[1].args = args
    /\ others[2].article # article
    /\ others[2].article # Null /\ "content_state" \in DOMAIN others[2].article
    /\ IsDocument
    /\ \E out \in {OutLines} : Embedded(out) # {}

----------------------------------------------------------------------------
(* Specification SpecInterleaved: several conversions (main.ts,              *)
(* convertArticleToMarkdown: resolve the referenced posts, then format) in   *)
(* one event loop. A conversion runs until it awaits; the others wait in     *)
(* their frames, each with its own locals                                    *)

Conversions == 2

\* formatArticleMarkdown as one function of its arguments
formatArticleMarkdown(doc, options) ==
    LET candidate == coerceArticleEntity(doc)
    IN  IF candidate = Null
        THEN [markdown |-> JsonFallback(doc), coverUrl |-> Undefined]
        ELSE LET cover == CoverUrlOf(candidate)
                 body == IF HasBlocks(candidate)
                         THEN renderContentBlocks(BlocksOf(candidate),
                                                  ContextOf(candidate, options),
                                                  InitialUsedUrls(cover))
                         ELSE [lines |-> <<>>,
                               usedUrls |-> InitialUsedUrls(cover)]
                 doclines ==
                     IF HasBlocks(candidate)
                     THEN IF Len(body.lines) > 0
                          THEN AppendSection(TitleLines(candidate), body.lines)
                          ELSE TitleLines(candidate)
                     ELSE PlainTextLines(TitleLines(candidate), candidate)
                 media == collectMediaUrls(candidate, body.usedUrls, cover)
             IN  [markdown |-> Markdown(doclines \o GalleryLines(media.urls)),
                  coverUrl |-> cover]

\* const referencedTweets = await resolveReferencedTweetsFromArticle(...);
\* formatArticleMarkdown(article, { referencedTweets }) is called
ConvertFormat ==
    /\ pc = "returned"
    /\ args' = [options |-> [referencedTweets |-> ret.referencedTweets]]
    /\ ret' = Null
    /\ pc' = "format"
    /\ UNCHANGED <<renderVars, others, article, resolverVars>>

\* the positions at which a conversion is not executing: about to be resumed
\* after fetchXArticle, awaiting fetchXTweet, awaiting the resolver's promise,
\* finished
Suspended == {"resolve", "await", "returned", "done"}

\* the locals of the running conversion, as its frame keeps them while
\* another one runs
Frame(input) ==
    [input |-> input, article |-> article, args |-> args, ret |-> ret,
     pc |-> pc, ids |-> ids, cursor |-> cursor,
     referencedTweets |-> referencedTweets, lookups |-> lookups,
     logged |-> logged, lines |-> lines, usedUrls |-> usedUrls,
     coverUrl |-> coverUrl, blockIdx |-> blockIdx, rendered |-> rendered,
     previousKind |-> previousKind, listKind |-> listKind,
     orderedIndex |-> orderedIndex, inCodeBlock |-> inCodeBlock,
     atomicMediaQueue |-> atomicMediaQueue]

\* a conversion that has not run yet
StartFrame(doc) ==
    [input |-> doc, article |-> doc, args |-> Null, ret |-> Null,
     pc |-> "resolve", ids |-> <<>>, cursor |-> 0,
     referencedTweets |-> <<>>, lookups |-> <<>>,
     logged |-> <<>>, lines |-> <<>>, usedUrls |-> {},
     coverUrl |-> Undefined, blockIdx |-> 0, rendered |-> <<>>,
     previousKind |-> "none", listKind |-> "none",
     orderedIndex |-> 0, inCodeBlock |-> FALSE, atomicMediaQueue |-> <<>>]

\* the slot of the conversion that is running
RunningSlot(input) == [input |-> input, pc |-> "running"]

\* a resumption that finds the result map of whoever ran last: one Map for
\* all conversions instead of the new Map() of each call
ResumeSharedMap(frame) ==
    /\ article' = frame.article
    /\ args' = frame.args
    /\ ret' = frame.ret
    /\ pc' = frame.pc
    /\ ids' = frame.ids
    /\ cursor' = frame.cursor
    /\ referencedTweets' = referencedTweets
    /\ lookups' = frame.lookups
    /\ logged' = frame.logged
    /\ lines' = frame.lines
    /\ usedUrls' = frame.usedUrls
    /\ coverUrl' = frame.coverUrl
    /\ blockIdx' = frame.blockIdx
    /\ rendered' = frame.rendered
    /\ previousKind' = frame.previousKind
    /\ listKind' = frame.listKind
    /\ orderedIndex' = frame.orderedIndex
    /\ inCodeBlock' = frame.inCodeBlock
    /\ atomicMediaQueue' = frame.atomicMediaQueue

\* the event loop resumes a conversion: its locals are those of its own call
Resume(frame) ==
    /\ article' = frame.article
    /\ args' = frame.args
    /\ ret' = frame.ret
    /\ pc' = frame.pc
    /\ ids' = frame.ids
    /\ cursor' = frame.cursor
    /\ referencedTweets' = frame.referencedTweets
    /\ lookups' = frame.lookups
    /\ logged' = frame.logged
    /\ lines' = frame.lines
    /\ usedUrls' = frame.usedUrls
    /\ coverUrl' = frame.coverUrl
    /\ blockIdx' = frame.blockIdx
    /\ rendered' = frame.rendered
    /\ previousKind' = frame.previousKind
    /\ listKind' = frame.listKind
    /\ orderedIndex' = frame.orderedIndex
    /\ inCodeBlock' = frame.inCodeBlock
    /\ atomicMediaQueue' = frame.atomicMediaQueue

\* an await that blocks: no other conversion is resumed while the running
\* one awaits its lookup
SwitchBlockedByAwait ==
    /\ pc \in Suspended \ {"await"}
    /\ \E r, i \in 1..Len(others) :
          /\ others[r].pc = "running"
          /\ others[i].pc \notin {"running", "done"}
          /\ others' = [others EXCEPT ![r] = Frame(others[r].input),
                                      ![i] = RunningSlot(others[i].input)]
          /\ Resume(others[i])

\* the running conversion is suspended and the event loop resumes another
\* one that has not finished
Switch ==
    /\ pc \in Suspended
    /\ \E r, i \in 1..Len(others) :
          /\ others[r].pc = "running"
          /\ others[i].pc \notin {"running", "done"}
          /\ others' = [others EXCEPT ![r] = Frame(others[r].input),
                                      ![i] = RunningSlot(others[i].input)]
          /\ Resume(others[i])

InterleavedBlocks ==
    <<[type |-> "unstyled", text |-> <<"a", "b">>,
       entityRanges |-> <<[key |-> 0, offset |-> 0, length |-> 1]>>],
      [type |-> "atomic", text |-> <<" ">>,
       entityRanges |-> <<[key |-> 1, offset |-> 0, length |-> 1]>>],
      [type |-> "atomic", text |-> <<" ">>,
       entityRanges |-> <<[key |-> 2, offset |-> 0, length |-> 1]>>]>>

\* the documents of the conversions, in the order of their calls: one with
\* media and a cover quoting posts 8 and 7; one without blocks whose entity
\* map refers to post 7; one quoting post 7 alone
InterleavedArticles ==
    <<[title |-> <<"B">>, media_entities |-> FormatMediaEntities,
       cover_media |-> [media_info |-> [original_img_url |-> <<"P">>]],
       content_state |->
           [blocks |-> InterleavedBlocks,
            entityMap |->
                <<[key |-> <<"0">>,
                   value |-> MediaEntity(<<[mediaId |-> "m1"],
                                           [media_id |-> "m2"]>>)],
                  [key |-> <<"1">>, value |-> TweetEntity(<<"8">>)],
                  [key |-> <<"2">>, value |-> TweetEntity(<<"7">>)]>>]],
      [title |-> <<"T">>, plain_text |-> <<"a", " ">>,
       content_state |->
           [entityMap |-> <<[key |-> <<"0">>, value |-> TweetEntity(<<"7">>)]>>]],
      [title |-> <<"A">>,
       content_state |->
           [blocks |-> <<[type |-> "atomic", text |-> <<" ">>,
                          entityRanges |->
                              <<[key |-> 0, offset |-> 0, length |-> 1]>>]>>,
            entityMap |-> <<[key |-> <<"0">>, value |-> TweetEntity(<<"7">>)]>>]]>>

\* the document of the i-th conversion
InterleavedArticle(i) ==
    InterleavedArticles[((i - 1) % Len(InterleavedArticles)) + 1]

InitInterleaved ==
    /\ article = InterleavedArticle(1)
    /\ args = Null
    /\ ret = Null
    /\ pc = "resolve"
    /\ ResolverIdle
    /\ RenderIdle
    /\ others = [i \in 1..Conversions |->
                    IF i = 1 THEN RunningSlot(InterleavedArticle(i))
                    ELSE StartFrame(InterleavedArticle(i))]

NextInterleaved ==
    \/ ResolveStart
    \/ IssueLookup
    \/ LookupSucceeds
    \/ LookupFails
    \/ ResolveReturn
    \/ ConvertFormat
    \/ FormatStart
    \/ RenderNextBlock
    \/ RenderReturn
    \/ FormatPlainText
    \/ FormatGallery
    \/ Switch

SpecInterleaved == InitInterleaved /\ [][NextInterleaved]_vars

\* what a lookup of id can leave in the result map
InfoOf(id, outcome) ==
    IF outcome = "rejected" THEN {DegradedInfo(id)}
    ELSE {extractReferencedTweetInfo(tweet, id) : tweet \in TweetPayloads(id)}

\* frame f ended as the conversion of its document alone ends: one lookup per
\* reference of that document, in order; a result map with those references
\* and nothing else, each with what its own lookup left; the Markdown and the
\* cover of that document under that map; the document as it was passed
AsAlone(f) ==
    /\ f.article = f.input
    /\ f.ids = extractReferencedTweetIds(f.input)
    /\ Len(f.lookups) = Len(f.ids)
    /\ \A k \in 1..Len(f.ids) :
          /\ f.lookups[k].id = f.ids[k]
          /\ f.lookups[k].outcome \in {"resolved", "rejected"}
    /\ DOMAIN f.referencedTweets = {f.ids[k] : k \in 1..Len(f.ids)}
    /\ \A k \in 1..Len(f.ids) :
          f.referencedTweets[f.ids[k]] \in InfoOf(f.ids[k], f.lookups[k].outcome)
    /\ f.args = [options |-> [referencedTweets |-> f.referencedTweets]]
    /\ f.ret = formatArticleMarkdown(f.input, f.args.options)

\* the frames of all conversions, the running one included
AllFrames ==
    {IF others[i].pc = "running" THEN Frame(others[i].input) ELSE others[i] :
        i \in 1..Len(others)}

\* C14: whatever the interleaving at the suspension points, every conversion
\* that has finished has the result it has when it runs alone, and its
\* document is as it was passed
C14_Independent == \A f \in AllFrames : f.pc = "done" => AsAlone(f)

\* a conversion ran from start to end while another one, of another document,
\* was suspended in its second lookup with its first result in its map
C14_Witness ==
    /\ pc = "done"
    /\ ids # <<>>
    /\ \E i \in 1..Len(others) :
          /\ others[i].pc = "await"
          /\ others[i].cursor = 2
          /\ others[i].input # article
          /\ DOMAIN others[i].referencedTweets # {}

----------------------------------------------------------------------------
(* Specification SpecBlocks: formatArticleMarkdown on documents without      *)
(* title and cover, so that the document is what renderContentBlocks         *)
(* returns, over every short sequence of blocks of every kind                *)

MaxBlockRun == 4

\* [header-one "Title", unordered "A", unordered "B", header-two "Next"]
ExampleBlocks ==
    <<[type |-> "header-one", text |-> <<"T", "i", "t", "l", "e">>],
      [type |-> "unordered-list-item", text |-> <<"A">>],
      [type |-> "unordered-list-item", text |-> <<"B">>],
      [type |-> "header-two", text |-> <<"N", "e", "x", "t">>]>>

\* '# Title', '', '- A', '- B', '', '## Next'
ExampleLines ==
    <<(<<"#", " ", "T", "i", "t", "l", "e">>),
      (<<>>),
      (<<"-", " ", "A">>),
      (<<"-", " ", "B">>),
      (<<>>),
      (<<"#", "#", " ", "N", "e", "x", "t">>)>>

\* entity 0 is media m1 and m2, entity 1 a link
BlocksEntityMap ==
    <<[key |-> <<"0">>,
       value |-> MediaEntity(<<[mediaId |-> "m1"], [media_id |-> "m2"]>>)],
      [key |-> <<"1">>, value |-> LinkEntity(<<"R">>)]>>

\* a block of every kind: list items, a heading, a quote, text with attached
\* media, code, an embed (media, then a bare link), text without characters
BlockShapes ==
    {[type |-> "unordered-list-item", text |-> <<"A">>],
     [type |-> "ordered-list-item", text |-> <<"A">>],
     [type |-> "header-two", text |-> <<"N">>],
     [type |-> "blockquote", text |-> <<"q">>],
     [type |-> "unstyled", text |-> <<"a">>,
      entityRanges |-> <<[key |-> 0, offset |-> 0, length |-> 0]>>],
     [type |-> "code-block", text |-> <<"c">>],
     [type |-> "atomic", text |-> <<" ">>,
      entityRanges |-> <<[key |-> 0, offset |-> 0, length |-> 1],
                         [key |-> 1, offset |-> 0, length |-> 1]>>],
     [type |-> "unstyled", text |-> <<>>]}

BlocksArticles ==
    {Null, [plain_text |-> <<"a">>],
     [content_state |-> [blocks |-> ExampleBlocks]]}
    \cup {[media_entities |-> FormatMediaEntities,
           content_state |-> [blocks |-> b, entityMap |-> BlocksEntityMap]] :
            b \in SeqsUpTo(BlockShapes, MaxBlockRun)}

InitBlocks ==
    /\ article \in BlocksArticles
    /\ args = [options |-> <<>>]
    /\ ret = Null
    /\ pc = "format"
    /\ ResolverIdle
    /\ RenderIdle
    /\ others = <<>>

NextBlocks ==
    \/ FormatFallback
    \/ FormatStart
    \/ RenderNextBlock
    \/ RenderReturn
    \/ FormatPlainText
    \/ FormatGallery

SpecBlocks == InitBlocks /\ [][NextBlocks]_vars

\* the document's blocks are the example's
IsExample ==
    /\ IsDocument
    /\ BlocksOf(article) = ExampleBlocks

\* C15: the example renders to exactly '# Title', '', '- A', '- B', '',
\* '## Next', as returned by renderContentBlocks and as the Markdown
C15_Example ==
    IsExample =>
        /\ pc \in {"gallery", "done"} => rendered = ExampleLines
        /\ pc = "done" => ret.markdown = Join(ExampleLines, <<"\n">>)

\* the example has been converted
C15_Witness ==
    /\ IsExample
    /\ pc = "done"
    /\ SplitNewline(ret.markdown) = ExampleLines

\* the kinds whose chunks stack without a blank line
Stackable == {"list", "quote", "media"}

\* the chunks a block other than a code block hands to pushBlock, in order,
\* each with its kind; st is the renderer's state when the block is reached
BlockChunks(st, block, ctx) ==
    LET type == BlockType(block)
        text == IF type # "atomic"
                THEN renderInlineLinks(BlockText(block), BlockRanges(block),
                                       ctx.entityMap, ctx.entityLookup,
                                       ctx.mediaLinkMap)
                ELSE BlockText(block)
        media == [kind |-> "media",
                  lines |-> collectMediaLines(block, ctx, st.usedUrls).lines]
        n == (IF st.listKind # "ordered" THEN 0 ELSE st.orderedIndex) + 1
    IN  IF type = "atomic"
        THEN <<[kind |-> "quote", lines |-> collectTweetLines(block, ctx)],
               media,
               [kind |-> "text", lines |-> collectLinkLines(block, ctx)]>>
        ELSE IF type = "unordered-list-item"
        THEN <<[kind |-> "list", lines |-> <<(<<"-", " ">> \o text)>>], media>>
        ELSE IF type = "ordered-list-item"
        THEN <<[kind |-> "list",
                lines |-> <<(NumStr(n) \o <<".", " ">> \o text)>>], media>>
        ELSE IF IsHeader(type)
        THEN <<[kind |-> "heading",
                lines |-> <<(HeaderPrefix(type) \o text)>>], media>>
        ELSE IF type = "blockquote"
        THEN <<[kind |-> "quote",
                lines |-> PrefixEach(IF Len(text) > 0 THEN SplitNewline(text)
                                     ELSE <<(<<>>)>>, <<">", " ">>)], media>>
        ELSE IF IsPlaceholder(Trim(text)) THEN <<media>>
        ELSE <<[kind |-> "text", lines |-> <<text>>], media>>

\* what stands between the lines emitted so far and a chunk of this kind:
\* nothing before the first chunk and between two chunks of one stackable
\* kind, one blank line otherwise
Separator(emitted, prev, kind) ==
    IF emitted = <<>> \/ (prev = kind /\ kind \in Stackable) THEN <<>>
    ELSE <<(<<>>)>>

\* the lines after the chunks cs, those without lines left out, have joined
\* the lines emitted so far, the last of which closed a chunk of kind prev
RECURSIVE LayOut(_, _, _)
LayOut(emitted, prev, cs) ==
    IF cs = <<>> THEN [lines |-> emitted, kind |-> prev]
    ELSE IF Head(cs).lines = <<>> THEN LayOut(emitted, prev, Tail(cs))
    ELSE LayOut(emitted \o Separator(emitted, prev, Head(cs).kind)
                        \o Head(cs).lines,
                Head(cs).kind, Tail(cs))

\* the block rendered by this step; a fenced run of code blocks is one chunk
\* of kind "code", and a block that is no code block ends it
StepBlock == BlocksOf(article)[blockIdx]

StepIsCode == BlockType(StepBlock) = "code-block"

\* the step opens a fenced run, continues one, or lays out the block's chunks
\* after the closing fence of the run before it
StepLaidOut ==
    IF StepIsCode
    THEN /\ rendered' =
               rendered
                 \o (IF inCodeBlock THEN <<>>
                     ELSE Separator(rendered, previousKind, "code") \o <<Fence>>)
                 \o <<BlockText(StepBlock)>>
         /\ previousKind' = "code"
    ELSE LET out == LayOut(rendered \o (IF inCodeBlock THEN <<Fence>> ELSE <<>>),
                           previousKind,
                           BlockChunks(BlockStateNow, StepBlock,
                                       ContextOf(article, args.options)))
         IN  /\ rendered' = out.lines
             /\ previousKind' = out.kind

\* C16: every step of the loop of renderContentBlocks leaves one blank line
\* between the chunk it emits and the chunk before it, none when both have the
\* same kind and the kind is list, quote or media, and none before the first
\* chunk; previousKind is the kind of the last chunk, "none" before the first
C16_BlankLines ==
    [][(pc = "blocks" /\ blockIdx' = blockIdx + 1) =>
            /\ (previousKind = "none") <=> (rendered = <<>>)
            /\ StepLaidOut]_vars

\* list items stacked, a fenced run after one blank line, and after it the
\* three chunks of an embed, each after one blank line
C16_Witness ==
    /\ pc = "gallery"
    /\ IsDocument
    /\ BlocksOf(article) # ExampleBlocks
    /\ Len(rendered) >= 10
    /\ rendered[1] = <<"-", " ", "A">>
    /\ rendered[2] = <<"1", ".", " ", "A">>
    /\ rendered[3] = <<>>
    /\ rendered[4] = Fence
    /\ rendered[6] = Fence
    /\ rendered[7] = <<>>
    /\ rendered[Len(rendered) - 1] = <<>>
    /\ rendered[Len(rendered)] = <<"R">>

\* block i of the document is a code block
IsCodeAt(i) == BlockType(BlocksOf(article)[i]) = "code-block"

\* the blocks the loop has gone through
Processed == blockIdx - 1

\* the maximal runs of code blocks begun in the blocks gone through
RunsBegun ==
    Cardinality({i \in 1..Processed : IsCodeAt(i) /\ (i = 1 \/ ~IsCodeAt(i - 1))})

\* those of them that are over: a block that is no code block has followed,
\* or renderContentBlocks has returned
RunsOver ==
    Cardinality({i \in 1..Processed :
                    /\ IsCodeAt(i)
                    /\ \/ i < Processed /\ ~IsCodeAt(i + 1)
                       \/ i = Processed /\ pc # "blocks"})

\* the fence lines among the first n lines emitted
FencesBefore(n) == Cardinality({i \in 1..n : rendered[i] = Fence})

\* line i stands after an opening fence and before its closing fence
InsideFence(i) == rendered[i] # Fence /\ FencesBefore(i) % 2 = 1

\* the text of a code block of BlockShapes, which no other block emits
CodeLine == <<"c">>

\* C17: one opening fence per maximal run of code blocks and one closing fence
\* per run that is over; the lines inside fences are exactly the code lines,
\* so that a fence is closed before the next block's first line; on return
\* every fence is closed
C17_FencesBalanced ==
    (IsDocument /\ BlocksOf(article) # Undefined
        /\ pc \in {"blocks", "gallery", "done"}) =>
        /\ FencesBefore(Len(rendered)) = RunsBegun + RunsOver
        /\ \A i \in 1..Len(rendered) :
              rendered[i] # Fence =>
                  (InsideFence(i) <=> rendered[i] = CodeLine)
        /\ pc = "blocks" => (inCodeBlock <=> RunsBegun > RunsOver)
        /\ pc # "blocks" =>
              /\ RunsBegun = RunsOver
              /\ FencesBefore(Len(rendered)) % 2 = 0

\* a run of two code blocks, an embed, and a run of one code block that the
\* end of the document closes
C17_Witness ==
    /\ pc = "gallery"
    /\ IsDocument
    /\ Len(BlocksOf(article)) = 4
    /\ IsCodeAt(1) /\ IsCodeAt(2) /\ ~IsCodeAt(3) /\ IsCodeAt(4)
    /\ BlockType(BlocksOf(article)[3]) = "atomic"
    /\ FencesBefore(Len(rendered)) = 4
    /\ rendered[1] = Fence /\ rendered[4] = Fence
    /\ rendered[Len(rendered)] = Fence

\* block i of the document is an ordered-list item
IsOrderedAt(i) == BlockType(BlocksOf(article)[i]) = "ordered-list-item"

\* the ordered-list items that stand immediately before block i, one after
\* the other
OrderedBefore(i) ==
    Cardinality({j \in 1..(i - 1) : \A k \in j..(i - 1) : IsOrderedAt(k)})

\* the lines the step adds, without the closing fence of a run of code and
\* without blank lines
StepAdded ==
    SelectSeq(SubSeq(rendered', Len(rendered) + 1, Len(rendered')),
              LAMBDA l : l # Fence /\ l # <<>>)

\* the text of the block as renderInlineLinks returns it
StepText ==
    renderInlineLinks(BlockText(StepBlock), BlockRanges(StepBlock),
                      ContextOf(article, args.options).entityMap,
                      ContextOf(article, args.options).entityLookup,
                      ContextOf(article, args.options).mediaLinkMap)

\* C18: an ordered item is 'N. text', N one more than the number of ordered
\* items immediately before it; an unordered item is '- text'; after an
\* ordered item the counter is N, after any other block it is zero
C18_OrderedNumbers ==
    [][(pc = "blocks" /\ blockIdx' = blockIdx + 1) =>
          LET type == BlockType(StepBlock)
              N == OrderedBefore(blockIdx) + 1
          IN  /\ type = "ordered-list-item" =>
                    /\ StepAdded # <<>>
                    /\ Head(StepAdded) = NumStr(N) \o <<".", " ">> \o StepText
                    /\ orderedIndex' = N
                    /\ listKind' = "ordered"
              /\ type = "unordered-list-item" =>
                    /\ StepAdded # <<>>
                    /\ Head(StepAdded) = <<"-", " ">> \o StepText
                    /\ listKind' = "unordered"
              /\ type # "ordered-list-item" => orderedIndex' = 0
              /\ type \notin {"ordered-list-item", "unordered-list-item"} =>
                    listKind' = "none"]_vars

\* two ordered items in a row, a heading, and an ordered item that starts
\* again at 1
C18_Witness ==
    /\ pc = "gallery"
    /\ IsDocument
    /\ Len(BlocksOf(article)) = 4
    /\ IsOrderedAt(1) /\ IsOrderedAt(2) /\ IsOrderedAt(4)
    /\ IsHeader(BlockType(BlocksOf(article)[3]))
    /\ rendered[1] = <<"1", ".", " ", "A">>
    /\ rendered[2] = <<"2", ".", " ", "A">>
    /\ rendered[Len(rendered)] = <<"1", ".", " ", "A">>
    /\ orderedIndex = 1

----------------------------------------------------------------------------
(* Specification SpecMerge: buildMediaLinkMap, in its two copies, applied to *)
(* every bounded entity map of Media, Image and Link entities whose logical  *)
(* keys need not be their positions                                          *)

\* scripts/markdown.ts, the second loop of its buildMediaLinkMap: the URL is
\* recorded under the positional index only
RECURSIVE skillPairMedia(_, _, _)
skillPairMedia(mediaEntries, pool, map) ==
    IF mediaEntries = <<>> \/ pool = <<>> THEN map
    ELSE LET media == Head(mediaEntries)
             found == FindIndexGreater(pool, media.key)
             linkIdx == IF found = 0 - 1 THEN 0 ELSE found
             link == pool[linkIdx + 1]
         IN  skillPairMedia(Tail(mediaEntries), SpliceOut(pool, linkIdx),
                            MapSet(map, media.idx, link.url))

\* scripts/markdown.ts, buildMediaLinkMap
skillBuildMediaLinkMap(entityMap) ==
    IF entityMap = Undefined THEN <<>>
    ELSE LET mediaEntries == MediaEntriesFrom(entityMap, 1)
             linkEntries == LinkEntriesFrom(entityMap, 1)
         IN  IF mediaEntries = <<>> \/ linkEntries = <<>> THEN <<>>
             ELSE skillPairMedia(SortByKey(mediaEntries), SortByKey(linkEntries),
                                 <<>>)

MergeKeys == {<<>>, <<"0">>, <<"1">>, <<"2">>}

MergeValues == {MediaEntity(<<>>), LinkEntity(<<"P">>), LinkEntity(<<"Q">>)}

MergeEntries ==
    {[key |-> k, value |-> v] : k \in MergeKeys, v \in MergeValues}
    \cup {[key |-> <<"3">>, value |-> ImageEntity(<<>>, <<"R">>)]}

\* two media entities, each at the position that is the other's logical key,
\* and a link for each
CrossedKeys ==
    <<[key |-> <<"1">>, value |-> MediaEntity(<<>>)],
      [key |-> <<"0">>, value |-> MediaEntity(<<>>)],
      [key |-> <<"2">>, value |-> LinkEntity(<<"P">>)],
      [key |-> <<"3">>, value |-> LinkEntity(<<"Q">>)]>>

InitMerge ==
    /\ article = NoArticle
    /\ ResolverIdle
    /\ RenderIdle
    /\ others = <<>>
    /\ args \in {[entityMap |-> m] :
                    m \in SeqsUpTo(MergeEntries, MaxEntities) \cup {CrossedKeys}}
    /\ ret = Null
    /\ pc = "call"

\* the call of the copy in scripts/markdown.ts
SkillMergeCall ==
    /\ pc = "call"
    /\ ret' = [map |-> skillBuildMediaLinkMap(args.entityMap),
               copy |-> "scripts/markdown.ts"]
    /\ pc' = "done"
    /\ UNCHANGED <<renderVars, others, article, args, resolverVars>>

NextMerge == MergeCall \/ SkillMergeCall

SpecMerge == InitMerge /\ [][NextMerge]_vars

\* the pairs of the rule: the media in ascending key order, each with the
\* first link left whose key is greater, or else the first link left
RECURSIVE PairsFrom(_, _)
PairsFrom(mediaEntries, pool) ==
    IF mediaEntries = <<>> \/ pool = <<>> THEN <<>>
    ELSE LET media == Head(mediaEntries)
             later == {i \in 1..Len(pool) : pool[i].key > media.key}
             pick == IF later = {} THEN 1
                     ELSE CHOOSE i \in later : \A j \in later : i <= j
         IN  <<[media |-> media, link |-> pool[pick]]>>
                \o PairsFrom(Tail(mediaEntries),
                             SubSeq(pool, 1, pick - 1)
                                \o SubSeq(pool, pick + 1, Len(pool)))

PairsOf(entityMap) ==
    PairsFrom(SortByKey(MediaEntriesFrom(entityMap, 1)),
              SortByKey(LinkEntriesFrom(entityMap, 1)))

\* C19: the map returned holds, for every pair of the rule, the link's URL
\* under the media's logical key and under its positional index, and nothing
\* else
C19_RecordedUnderBoth ==
    pc = "done" =>
        \A pairs \in {PairsOf(args.entityMap)} :
            /\ \A i \in 1..Len(pairs) :
                  /\ MapGetStr(ret.map, pairs[i].media.key) = pairs[i].link.url
                  /\ MapGetStr(ret.map, pairs[i].media.idx) = pairs[i].link.url
            /\ DOMAIN ret.map =
                  {pairs[i].media.key : i \in 1..Len(pairs)}
                     \cup {pairs[i].media.idx : i \in 1..Len(pairs)}

\* the Media/Image entities that a lookup by their logical key finds (the
\* first to declare it) and for which the map holds a URL under that key
MappedMedia(entityMap, map) ==
    {i \in 1..Len(entityMap) :
        /\ EntryValue(entityMap[i]) # Null
        /\ IsMediaType(EntryValue(entityMap[i]))
        /\ ~ParseInt(EntryKey(entityMap[i])).nan
        /\ ParseInt(EntryKey(entityMap[i])).n \in DOMAIN map
        /\ \A j \in 1..(i - 1) :
              ParseInt(EntryKey(entityMap[j]))
                 # ParseInt(EntryKey(entityMap[i]))}

\* C20: the map of part_000 gives a URL to at most as many media entities
\* as there are link entities, and is empty when there is no link entity
C20_OnePerLink ==
    (pc = "done" /\ "copy" \notin DOMAIN ret) =>
        /\ Cardinality(MappedMedia(args.entityMap, ret.map))
              <= Len(LinkEntriesFrom(args.entityMap, 1))
        /\ LinkEntriesFrom(args.entityMap, 1) = <<>> => ret.map = <<>>

\* the pairs recorded one after the other, each under the positional index
\* and, in part_000, then under the logical key; a later recording under a
\* number replaces an earlier one
RECURSIVE RecordedFrom(_, _, _)
RecordedFrom(pairs, underKey, map) ==
    IF pairs = <<>> THEN map
    ELSE LET p == Head(pairs)
             byIdx == MapSet(map, p.media.idx, p.link.url)
         IN  RecordedFrom(Tail(pairs), underKey,
                          IF underKey THEN MapSet(byIdx, p.media.key, p.link.url)
                          ELSE byIdx)

\* what both copies do return: the pairs of the rule, recorded in order
PairsRecordedInOrder ==
    pc = "done" =>
        ret.map = RecordedFrom(PairsOf(args.entityMap),
                               "copy" \notin DOMAIN ret, <<>>)

----------------------------------------------------------------------------
(* Specification SpecEmbeds: formatArticleMarkdown on documents without      *)
(* title and cover whose blocks are embeds, placeholders and blocks with     *)
(* attached media of every type                                              *)

\* entity 0 is media m1, entity 1 a link, entity 2 a quoted post, entity 3
\* media m2
EmbedsEntityMap ==
    <<[key |-> <<"0">>, value |-> MediaEntity(<<[mediaId |-> "m1"]>>)],
      [key |-> <<"1">>, value |-> LinkEntity(<<"L">>)],
      [key |-> <<"2">>, value |-> TweetEntity(<<"7">>)],
      [key |-> <<"3">>, value |-> MediaEntity(<<[media_id |-> "m2"]>>)]>>

\* a range that attaches entity k without covering any text
Attach(k) == [key |-> k, offset |-> 0, length |-> 0]

\* the text of every embed of EmbedShapes, which no other block carries
EmbedText == <<"x">>

PlaceholderText == <<"X", "I", "M", "G", "P", "H", "_", "1">>

\* embeds: link, media, quoted post and the link again, in that order;
\* a quoted post alone; media alone; nothing attached
EmbedShapes ==
    {[type |-> "atomic", text |-> EmbedText,
      entityRanges |-> <<Attach(1), Attach(0), Attach(2), Attach(1)>>],
     [type |-> "atomic", text |-> EmbedText, entityRanges |-> <<Attach(2)>>],
     [type |-> "atomic", text |-> EmbedText, entityRanges |-> <<Attach(0)>>],
     [type |-> "atomic", text |-> EmbedText]}

\* the placeholder token, with media m2 attached, as a block of each type
PlaceholderShapes ==
    {[type |-> t, text |-> PlaceholderText, entityRanges |-> <<Attach(3)>>] :
        t \in {"unstyled", "header-two", "unordered-list-item",
               "ordered-list-item", "blockquote"}}

\* text, a heading and code with media m1 attached; text with the link
\* attached
AttachedShapes ==
    {[type |-> t, text |-> <<"a">>, entityRanges |-> <<Attach(0)>>] :
        t \in {"unstyled", "header-two", "code-block"}}
    \cup {[type |-> "unstyled", text |-> <<"a">>,
           entityRanges |-> <<Attach(1)>>]}

EmbedsArticles ==
    {Null, [plain_text |-> <<"a">>]}
    \cup {[media_entities |-> FormatMediaEntities,
           content_state |-> [blocks |-> b, entityMap |-> EmbedsEntityMap]] :
            b \in SeqsUpTo(EmbedShapes \cup PlaceholderShapes
                              \cup AttachedShapes, MaxBlocks)}

InitEmbeds ==
    /\ article \in EmbedsArticles
    /\ args \in {[options |-> o] : o \in AgainOptions}
    /\ ret = Null
    /\ pc = "format"
    /\ ResolverIdle
    /\ RenderIdle
    /\ others = <<>>

NextEmbeds ==
    \/ FormatFallback
    \/ FormatStart
    \/ RenderNextBlock
    \/ RenderReturn
    \/ FormatPlainText
    \/ FormatGallery

SpecEmbeds == InitEmbeds /\ [][NextEmbeds]_vars

\* a step of the loop of renderContentBlocks
IsRenderStep == pc = "blocks" /\ blockIdx' = blockIdx + 1

\* the lines the step adds
StepLines == SubSeq(rendered', Len(rendered) + 1, Len(rendered'))

\* the groups with lines, one after the other with one blank line between
RECURSIVE Grouped(_)
Grouped(groups) ==
    IF groups = <<>> THEN <<>>
    ELSE IF Head(groups) = <<>> THEN Grouped(Tail(groups))
    ELSE IF Grouped(Tail(groups)) = <<>> THEN Head(groups)
    ELSE Head(groups) \o <<(<<>>)>> \o Grouped(Tail(groups))

\* what may stand before the first group: the closing fence of a run of
\* code, a blank line
GroupLeads == {<<>>, <<(<<>>)>>, <<Fence>>, <<Fence, (<<>>)>>}

\* the kind of the last group with lines, prev when there is none
LastKindOf(quote, media, links, prev) ==
    IF links # <<>> THEN "text"
    ELSE IF media # <<>> THEN "media"
    ELSE IF quote # <<>> THEN "quote"
    ELSE prev

\* C21: for an embed the step adds the quote lines of its quoted posts, then
\* the image lines of its media, then the URLs of its links, each URL once:
\* each group with lines is a chunk of its own, of kind quote, media and text,
\* and the text of the block is not among the lines
C21_EmbedOrder ==
    [][(IsRenderStep /\ BlockType(StepBlock) = "atomic") =>
          LET ctx == ContextOf(article, args.options)
              quote == collectTweetLines(StepBlock, ctx)
              media == collectMediaLines(StepBlock, ctx, usedUrls).lines
              links == collectLinkLines(StepBlock, ctx)
          IN  /\ \E lead \in GroupLeads :
                    StepLines = lead \o Grouped(<<quote, media, links>>)
              /\ \A i, j \in 1..Len(links) : links[i] = links[j] => i = j
              /\ \A i \in 1..Len(StepLines) : StepLines[i] # EmbedText
              /\ previousKind' =
                    LastKindOf(quote, media, links,
                               IF inCodeBlock THEN "code" ELSE previousKind)]_vars

\* the embed that names its link twice, its media and its quoted post, alone
\* in the document: three lines of quote, the image, the URL once
C21_Witness ==
    /\ pc = "gallery"
    /\ IsDocument
    /\ Len(BlocksOf(article)) = 1
    /\ BlockType(BlocksOf(article)[1]) = "atomic"
    /\ Len(BlockRanges(BlocksOf(article)[1])) = 4
    /\ "referencedTweets" \in DOMAIN args.options
    /\ Len(rendered) = 7
    /\ rendered[1] = QuoteLabel \o WideColon
                        \o <<"N", " ", "(", "@", "h", ")">>
    /\ rendered[4] = <<>>
    /\ rendered[5] = ImageLine(<<>>, <<"P">>)
    /\ rendered[6] = <<>>
    /\ rendered[7] = <<"L">>

\* the text of the block of the step is the placeholder token
StepIsPlaceholder ==
    /\ BlockType(StepBlock) \notin {"atomic", "code-block"}
    /\ IsPlaceholder(Trim(StepText))

\* the step adds the image lines of the block's attached media, and besides
\* them only separators
OnlyAttachedMedia ==
    StepAdded =
        collectMediaLines(StepBlock, ContextOf(article, args.options),
                          usedUrls).lines

\* C22: a block whose text is the placeholder token adds no line carrying
\* that text, whatever its type, and only the lines of its attached media
C22_PlaceholderSuppressed ==
    [][(IsRenderStep /\ StepIsPlaceholder) =>
          /\ \A i \in 1..Len(StepLines) :
                ~Includes(StepLines[i], PlaceholderText)
          /\ OnlyAttachedMedia]_vars

\* what the code does: the token is suppressed in blocks that reach the
\* default branch of the switch, and printed with its marker in headings,
\* list items and blockquotes
PlaceholderSuppressedInText ==
    [][(IsRenderStep /\ StepIsPlaceholder) =>
          IF \/ IsHeader(BlockType(StepBlock))
             \/ BlockType(StepBlock) \in {"unordered-list-item",
                                          "ordered-list-item", "blockquote"}
          THEN \E i \in 1..Len(StepLines) :
                  Includes(StepLines[i], PlaceholderText)
          ELSE OnlyAttachedMedia]_vars

----------------------------------------------------------------------------
(* The renderer of scripts/markdown.ts: no entity lookup, no quoted posts,   *)
(* media attached to embeds only, and a queue of URLs for the embeds that    *)
(* attach none                                                               *)

\* scripts/markdown.ts, buildAtomicMediaQueue
RECURSIVE AtomicMediaQueueFrom(_, _)
AtomicMediaQueueFrom(entities, used) ==
    IF entities = <<>> THEN <<>>
    ELSE LET url == resolveMediaUrl(MediaInfoOf(Head(entities)))
         IN  (IF url # Undefined /\ Truthy(url) /\ url \notin used
              THEN <<url>> ELSE <<>>)
                \o AtomicMediaQueueFrom(Tail(entities), used)

buildAtomicMediaQueue(candidate, used) ==
    AtomicMediaQueueFrom(MediaEntitiesOf(candidate), used)

\* what scripts/markdown.ts hands to its renderer: entities are read as
\* entityMap[String(key)]
skillContextOf(candidate) ==
    [entityMap |-> EntityMapOf(candidate),
     entityLookup |-> EmptyLookup,
     mediaById |-> buildMediaById(candidate),
     mediaLinkMap |-> skillBuildMediaLinkMap(EntityMapOf(candidate)),
     options |-> <<>>]

\* scripts/markdown.ts, the embed branch: the attached media, or else the
\* head of the queue if it is not used yet
skillRenderAtomic(st, block, ctx) ==
    LET media == collectMediaLines(block, ctx, st.usedUrls)
    IN  IF media.lines # <<>>
        THEN pushBlock([st EXCEPT !.usedUrls = media.usedUrls], media.lines,
                       "media")
        ELSE IF Len(st.atomicMediaQueue) > 0
        THEN LET url == Head(st.atomicMediaQueue)
                 shifted == [st EXCEPT !.atomicMediaQueue = Tail(@)]
             IN  IF url \notin st.usedUrls
                 THEN pushBlock([shifted EXCEPT !.usedUrls = @ \cup {url}],
                                <<ImageLine(<<>>, url)>>, "media")
                 ELSE shifted
        ELSE st

\* scripts/markdown.ts, one iteration of the loop of renderContentBlocks
skillRenderBlock(st, block, ctx) ==
    LET type == BlockType(block)
        rawText == BlockText(block)
        ranges == BlockRanges(block)
        text == IF type # "atomic" /\ type # "code-block"
                THEN renderInlineLinks(rawText, ranges, ctx.entityMap,
                                       ctx.entityLookup, ctx.mediaLinkMap)
                ELSE rawText
    IN  IF type = "code-block"
        THEN LET opened ==
                    IF ~st.inCodeBlock
                    THEN [st EXCEPT
                            !.lines = (IF Len(@) > 0 THEN Append(@, <<>>)
                                       ELSE @) \o <<Fence>>,
                            !.inCodeBlock = TRUE]
                    ELSE st
             IN  [opened EXCEPT !.lines = Append(@, text),
                                !.previousKind = "code",
                                !.listKind = "none",
                                !.orderedIndex = 0]
        ELSE IF type = "atomic"
        THEN skillRenderAtomic(ResetList(CloseFence(st)), block, ctx)
        ELSE LET closed == CloseFence(st)
             IN  IF type = "unordered-list-item"
                 THEN pushBlock([closed EXCEPT !.listKind = "unordered",
                                               !.orderedIndex = 0],
                                <<(<<"-", " ">> \o text)>>, "list")
                 ELSE IF type = "ordered-list-item"
                 THEN LET n == (IF closed.listKind # "ordered" THEN 0
                                ELSE closed.orderedIndex) + 1
                      IN  pushBlock([closed EXCEPT !.listKind = "ordered",
                                                   !.orderedIndex = n],
                                    <<(NumStr(n) \o <<".", " ">> \o text)>>,
                                    "list")
                 ELSE IF IsHeader(type)
                 THEN pushBlock(ResetList(closed),
                                <<(HeaderPrefix(type) \o text)>>, "heading")
                 ELSE IF type = "blockquote"
                 THEN LET quoteLines == IF Len(text) > 0
                                        THEN SplitNewline(text)
                                        ELSE <<(<<>>)>>
                      IN  pushBlock(ResetList(closed),
                                    PrefixEach(quoteLines, <<">", " ">>),
                                    "quote")
                 ELSE pushBlock(ResetList(closed), <<text>>, "text")

skillBlockStateNow ==
    [lines |-> rendered, previousKind |-> previousKind, listKind |-> listKind,
     orderedIndex |-> orderedIndex, inCodeBlock |-> inCodeBlock,
     usedUrls |-> usedUrls, atomicMediaQueue |-> atomicMediaQueue]

\* the renderer's variables and the queue take the values of st
skillSetBlockState(st) ==
    /\ rendered' = st.lines
    /\ previousKind' = st.previousKind
    /\ listKind' = st.listKind
    /\ orderedIndex' = st.orderedIndex
    /\ inCodeBlock' = st.inCodeBlock
    /\ usedUrls' = st.usedUrls
    /\ atomicMediaQueue' = st.atomicMediaQueue

\* scripts/markdown.ts, formatArticleMarkdown on a value that is no article
SkillFormatFallback ==
    /\ pc = "skill"
    /\ coerceArticleEntity(article) = Null
    /\ ret' = [markdown |-> JsonFallback(article), coverUrl |-> Undefined]
    /\ pc' = "done"
    /\ UNCHANGED <<renderVars, others, article, args, resolverVars>>

\* scripts/markdown.ts, formatArticleMarkdown up to the call of
\* renderContentBlocks; the queue is built only when there are blocks
SkillFormatStart ==
    /\ pc = "skill"
    /\ coerceArticleEntity(article) # Null
    /\ LET candidate == coerceArticleEntity(article)
           used == InitialUsedUrls(CoverUrlOf(candidate))
       IN  /\ lines' = TitleLines(candidate)
           /\ coverUrl' = CoverUrlOf(candidate)
           /\ skillSetBlockState(
                InitialBlockState(used)
                    @@ [atomicMediaQueue |->
                            IF HasBlocks(candidate)
                            THEN buildAtomicMediaQueue(candidate, used)
                            ELSE <<>>])
           /\ blockIdx' = 1
           /\ pc' = IF HasBlocks(candidate) THEN "skill-blocks" ELSE "text"
    /\ UNCHANGED <<others, article, args, ret, resolverVars>>

\* scripts/markdown.ts, one iteration of the loop of renderContentBlocks
SkillRenderNextBlock ==
    /\ pc = "skill-blocks"
    /\ blockIdx <= Len(BlocksOf(article))
    /\ ~BlockThrows(BlocksOf(article)[blockIdx], skillContextOf(article))
    /\ skillSetBlockState(
            skillRenderBlock(skillBlockStateNow, BlocksOf(article)[blockIdx],
                             skillContextOf(article)))
    /\ blockIdx' = blockIdx + 1
    /\ UNCHANGED <<lines, coverUrl, pc, others, article, args, ret, resolverVars>>

\* scripts/markdown.ts, renderContentBlocks returns and its lines join the
\* document
SkillRenderReturn ==
    /\ pc = "skill-blocks"
    /\ blockIdx > Len(BlocksOf(article))
    /\ skillSetBlockState(EndFence(skillBlockStateNow))
    /\ lines' = IF Len(EndFence(skillBlockStateNow).lines) > 0
                THEN AppendSection(lines, EndFence(skillBlockStateNow).lines)
                ELSE lines
    /\ pc' = "gallery"
    /\ UNCHANGED <<coverUrl, blockIdx, others, article, args, ret, resolverVars>>

----------------------------------------------------------------------------
(* Specification SpecCopies: formatArticleMarkdown of either copy on the     *)
(* documents of SpecEmbeds; the plain-text branch and the trailing media     *)
(* section are the same statements in both                                   *)

SkillCopy == [copy |-> "scripts/markdown.ts"]

\* the documents of SpecEmbeds, and the same with media m1 as their cover
CopiesArticles ==
    EmbedsArticles
    \cup {doc @@ [cover_media |-> [media_info |-> [original_img_url |-> <<"P">>]]] :
            doc \in {d \in EmbedsArticles : d # Null}}

InitCopies ==
    /\ article \in CopiesArticles
    /\ args \in {[options |-> <<>>], SkillCopy}
    /\ ret = Null
    /\ pc = IF args = SkillCopy THEN "skill" ELSE "format"
    /\ ResolverIdle
    /\ RenderIdle
    /\ others = <<>>

NextCopies ==
    \/ FormatFallback
    \/ FormatStart
    \/ RenderNextBlock
    \/ RenderReturn
    \/ SkillFormatFallback
    \/ SkillFormatStart
    \/ SkillRenderNextBlock
    \/ SkillRenderReturn
    \/ FormatPlainText
    \/ FormatGallery

SpecCopies == InitCopies /\ [][NextCopies]_vars

\* a step of the loop of renderContentBlocks, in either copy
IsBlockStep == pc \in {"blocks", "skill-blocks"} /\ blockIdx' = blockIdx + 1

\* what the renderer of the running copy was handed
StepContext ==
    IF args = SkillCopy THEN skillContextOf(article)
    ELSE ContextOf(article, args.options)

\* the image lines of the media attached to the block of the step whose
\* URLs are not used yet
StepMedia == collectMediaLines(StepBlock, StepContext, usedUrls)

IsImageLine(line) == StartsWith(line, <<"!", "[">>)

\* the lines of the step end with the chunk: it follows a blank line unless
\* it is the first of the renderer's lines or the step adds nothing else
\* to a chunk of media, and the renderer's kind is media
EndsWithMediaChunk(chunk) ==
    LET n == Len(rendered') - Len(chunk)
    IN  /\ Len(StepLines) >= Len(chunk)
        /\ SubSeq(rendered', n + 1, Len(rendered')) = chunk
        /\ n > 0 => \/ rendered'[n] = <<>>
                    \/ n = Len(rendered) /\ previousKind = "media"
        /\ \A i \in 1..(Len(StepLines) - Len(chunk)) :
                ~IsImageLine(StepLines[i])
        /\ previousKind' = "media"

\* the step of a block of code adds the fence, a blank line and the text of
\* the block, and marks no URL used; the step of a block that is neither an
\* embed nor code ends with the chunk of its attached media
TrailingMediaStep ==
    IF BlockType(StepBlock) = "code-block"
    THEN /\ \A i \in 1..Len(StepLines) :
                StepLines[i] \in {Fence, <<>>, BlockText(StepBlock)}
         /\ usedUrls' = usedUrls
    ELSE IF BlockType(StepBlock) # "atomic"
    THEN /\ usedUrls' = StepMedia.usedUrls
         /\ IF StepMedia.lines # <<>>
            THEN EndsWithMediaChunk(StepMedia.lines)
            ELSE \A i \in 1..Len(StepLines) : ~IsImageLine(StepLines[i])
    ELSE TRUE

\* C23: a block that is neither an embed nor code adds, after its own chunk,
\* the image lines of its attached media not used yet as a chunk of kind
\* media, and marks their URLs used; a block of code adds no image line
C23_TrailingMedia == [][IsBlockStep => TrailingMediaStep]_vars

\* what holds of the copy that takes the referenced-content map
TrailingMediaInCurrentCopy ==
    [][IsRenderStep => TrailingMediaStep]_vars

----------------------------------------------------------------------------
(* Specification SpecGallery: formatArticleMarkdown on documents whose media *)
(* records repeat a URL, resolve to none, or resolve to the cover or to a    *)
(* URL the body has embedded                                                 *)

\* records that resolve to P, to P again through the preview, to Q, and
\* records that resolve to nothing: no media_info, an empty URL
GalleryRecords ==
    {[media_id |-> "m1", media_info |-> [original_img_url |-> <<"P">>]],
     [media_id |-> "m4",
      media_info |-> [preview_image |-> [original_img_url |-> <<"P">>]]],
     [media_id |-> "m2", media_info |-> [original_img_url |-> <<"Q">>]],
     [media_id |-> "m5"],
     [media_id |-> "m6", media_info |-> [original_img_url |-> <<>>]]}

\* a title alone, a plain text, or a paragraph with media m2 attached
GalleryBodies ==
    {[title |-> <<"T">>],
     [plain_text |-> <<"a">>],
     [content_state |->
        [blocks |-> <<[type |-> "unstyled", text |-> <<"a">>,
                       entityRanges |-> <<Attach(0)>>]>>,
         entityMap |-> <<[key |-> <<"0">>,
                          value |-> MediaEntity(<<[mediaId |-> "m2"]>>)]>>]]}

GalleryArticles ==
    {Null}
    \cup {body @@ (IF c = Null THEN <<>> ELSE [cover_media |-> c])
               @@ [media_entities |-> m] :
            body \in GalleryBodies, c \in FormatCovers,
            m \in SeqsUpTo(GalleryRecords, MaxEntities)}

InitGallery ==
    /\ article \in GalleryArticles
    /\ args = [options |-> <<>>]
    /\ ret = Null
    /\ pc = "format"
    /\ ResolverIdle
    /\ RenderIdle
    /\ others = <<>>

NextGallery ==
    \/ FormatFallback
    \/ FormatStart
    \/ RenderNextBlock
    \/ RenderReturn
    \/ FormatPlainText
    \/ FormatGallery

SpecGallery == InitGallery /\ [][NextGallery]_vars

\* the URL each media record resolves to, in the order of the records
ResolvedUrls(candidate) ==
    [i \in 1..Len(MediaEntitiesOf(candidate)) |->
        resolveMediaUrl(MediaInfoOf(MediaEntitiesOf(candidate)[i]))]

\* the i-th record resolves to a URL that is not used and that no earlier
\* record resolves to
IsLeft(urls, i, used) ==
    /\ urls[i] # Undefined
    /\ urls[i] # <<>>
    /\ urls[i] \notin used
    /\ \A j \in 1..(i - 1) : urls[j] # urls[i]

RECURSIVE LeftFrom(_, _, _)
LeftFrom(urls, i, used) ==
    IF i > Len(urls) THEN <<>>
    ELSE (IF IsLeft(urls, i, used) THEN <<urls[i]>> ELSE <<>>)
            \o LeftFrom(urls, i + 1, used)

\* the URLs left for the media section
LeftUrls == LeftFrom(ResolvedUrls(article), 1, usedUrls)

\* the step that builds the media section and returns
IsGalleryStep == pc = "gallery" /\ pc' = "done"

\* C24: the media section is the heading '## Media' between two blank lines
\* followed by one image line with empty alt text for each URL that a media
\* record resolves to and that is not used, each URL once, in the order of
\* the records; when no URL is left nothing is added; the Markdown returned
\* is the lines joined
C24_Gallery ==
    [][IsGalleryStep =>
          \A left \in {LeftUrls} :
              /\ lines' =
                    lines \o
                    (IF left = <<>> THEN <<>>
                     ELSE <<(<<>>), <<"#", "#", " ", "M", "e", "d", "i", "a">>,
                            (<<>>)>>
                          \o [i \in 1..Len(left) |->
                                <<"!", "[", "]", "(">> \o left[i] \o <<")">>])
              /\ left # <<>> => SplitNewline(ret'.markdown) = lines'
              /\ left = <<>> => ret'.markdown = TrimEnd(Join(lines, <<"\n">>))]_vars

\* three records resolve to P, to P again and to Q, nothing is used: the
\* section lists P once, then Q
C24_Witness ==
    /\ pc = "done"
    /\ article # Null
    /\ "cover_media" \notin DOMAIN article
    /\ "plain_text" \in DOMAIN article
    /\ ResolvedUrls(article) = <<(<<"P">>), (<<"P">>), (<<"Q">>)>>
    /\ lines = <<(<<"a">>), (<<>>), MediaHeading, (<<>>),
                 ImageLine(<<>>, <<"P">>), ImageLine(<<>>, <<"Q">>)>>

\* every record resolves to the cover, to a URL of the body or to nothing:
\* no heading is printed
C24_NoGallery ==
    /\ pc = "done"
    /\ article # Null
    /\ Len(MediaEntitiesOf(article)) = MaxEntities
    /\ \A i \in 1..Len(lines) : lines[i] # MediaHeading

----------------------------------------------------------------------------
(* Specification SpecSettling: invocations of                                *)
(* resolveReferencedTweetsFromArticle that the event loop interleaves at     *)
(* their awaits. A continuation that is ready runs; nothing is assumed of    *)
(* the lookups, which may settle or stay pending for ever                    *)

\* the documents of the invocations, in the order of their calls: one that
\* refers to post 8, to post 7 and to post 8 again; one that refers to post
\* 7; one without references
SettlingArticles ==
    <<[content_state |->
          [entityMap |-> <<[value |-> TweetEntity(<<"8">>)],
                           [value |-> TweetEntity(<<"7">>)],
                           [value |-> TweetEntity(<<"8">>)]>>]],
      [content_state |-> [entityMap |-> <<[value |-> TweetEntity(<<"7">>)]>>]],
      [title |-> <<"T">>]>>

SettlingArticle(i) ==
    SettlingArticles[((i - 1) % Len(SettlingArticles)) + 1]

InitSettling ==
    /\ article = SettlingArticle(1)
    /\ args = Null
    /\ ret = Null
    /\ pc = "resolve"
    /\ ResolverIdle
    /\ RenderIdle
    /\ others = [i \in 1..Conversions |->
                    IF i = 1 THEN RunningSlot(SettlingArticle(i))
                    ELSE StartFrame(SettlingArticle(i))]

NextSettling ==
    \/ ResolveStart
    \/ IssueLookup
    \/ LookupSucceeds
    \/ LookupFails
    \/ ResolveReturn
    \/ Switch

\* the event loop resumes invocation i
SwitchTo(i) == Switch /\ others'[i].pc = "running"

\* the synchronous stretches run to their end (the steps from "loop"), and
\* an invocation that is ready to start or to be resumed is not passed over
\* for ever
SpecSettling ==
    /\ InitSettling
    /\ [][NextSettling]_vars
    /\ SF_vars(ResolveStart)
    /\ WF_vars(IssueLookup)
    /\ WF_vars(ResolveReturn)
    /\ \A i \in 1..Conversions : SF_vars(SwitchTo(i))

\* the position, the lookups and the document of invocation i, running or
\* suspended
PcOf(i) == IF others[i].pc = "running" THEN pc ELSE others[i].pc

LookupsOf(i) == IF others[i].pc = "running" THEN lookups ELSE others[i].lookups

ArticleOf(i) == others[i].input

\* every lookup of invocation i settles
Settles(i) == (PcOf(i) = "await") ~> (PcOf(i) # "await")

\* invocation i has returned its map
Returned(i) == PcOf(i) = "returned"

\* C25: an invocation all of whose lookups settle returns, whatever becomes
\* of the lookups of the others; when it has returned it has issued one
\* lookup for each unique reference ID; it is awaiting exactly while one of
\* its lookups is pending, and never more than one is
C25_Terminates ==
    \A i \in 1..Conversions :
        /\ Settles(i) => <>Returned(i)
        /\ [](Returned(i) =>
                Len(LookupsOf(i)) = Cardinality(UniqueRefIds(ArticleOf(i))))
        /\ [](/\ Cardinality(Pending(LookupsOf(i))) <= 1
              /\ PcOf(i) = "await" <=> Pending(LookupsOf(i)) # {})

\* the first invocation is awaiting its second lookup and the second one
\* has returned after its only lookup
C25_Witness ==
    /\ PcOf(1) = "await"
    /\ Len(LookupsOf(1)) = 2
    /\ Returned(2)
    /\ Len(LookupsOf(2)) = 1
    /\ Cardinality(UniqueRefIds(ArticleOf(1))) = 2

----------------------------------------------------------------------------
(* Specification SpecSummary: summarizeTweetText on texts of one or two      *)
(* words, the second about as long as the limit, with spaces, tabs and line  *)
(* breaks before, between and after them                                     *)

\* n times the letter a
Letters(n) == [i \in 1..n |-> "a"]

\* what may stand between and around the words
SummaryGaps ==
    {<<>>, <<" ">>, <<" ", " ">>, <<"\t">>, <<"\n">>, <<"\r", "\n">>,
     <<" ", "\n", "\n", "\t">>, <<"\r">>}

SummaryTexts ==
    {Undefined}
    \cup SummaryGaps
    \cup {before \o Letters(n) \o gap \o Letters(m) \o after :
            before \in {<<>>, <<"\n">>}, after \in {<<>>, <<" ">>},
            gap \in SummaryGaps, n \in 1..MaxText,
            m \in {0, 1} \cup ((SummaryLimit - MaxText - 3)
                                  ..(SummaryLimit + MaxText))}

InitSummary ==
    /\ article = NoArticle
    /\ args \in {[text |-> t] : t \in SummaryTexts}
    /\ ret = Null
    /\ pc = "call"
    /\ ResolverIdle
    /\ RenderIdle
    /\ others = <<>>

\* const summary = summarizeTweetText(referenced?.text) and the line pushed
\* when it is not empty
SummaryCall ==
    /\ pc = "call"
    /\ LET summary == summarizeTweetText(args.text)
       IN  ret' = [summary |-> summary,
                   lines |-> IF Truthy(summary)
                             THEN <<(<<">", " ">> \o summary)>> ELSE <<>>]
    /\ pc' = "done"
    /\ UNCHANGED <<renderVars, others, article, args, resolverVars>>

NextSummary == SummaryCall

SpecSummary == InitSummary /\ [][NextSummary]_vars

\* the first position of white space in s, 0 when there is none
FirstSpace(s) ==
    IF \E i \in 1..Len(s) : IsSpace(s[i])
    THEN CHOOSE i \in 1..Len(s) :
            IsSpace(s[i]) /\ \A j \in 1..(i - 1) : ~IsSpace(s[j])
    ELSE 0

\* the last position of the run of white space that starts at p
RunEnd(s, p) ==
    CHOOSE e \in p..Len(s) :
        /\ \A q \in p..e : IsSpace(s[q])
        /\ e = Len(s) \/ ~IsSpace(s[e + 1])

\* s with its runs of white space replaced by one space each: every run, or
\* only the runs that hold a newline
RECURSIVE Folded(_, _)
Folded(s, onlyBreaks) ==
    IF FirstSpace(s) = 0 THEN s
    ELSE LET p == FirstSpace(s)
             e == RunEnd(s, p)
             folds == ~onlyBreaks \/ \E q \in p..e : s[q] = "\n"
         IN  SubSeq(s, 1, p - 1)
                \o (IF folds THEN <<" ">> ELSE SubSeq(s, p, e))
                \o Folded(SubSeq(s, e + 1, Len(s)), onlyBreaks)

\* the text without leading and trailing white space, every run of white
\* space inside it collapsed to one space
CollapsedText(text) ==
    IF text = Undefined THEN <<>> ELSE Folded(Trim(text), FALSE)

\* the same, for the runs of white space that hold a newline only
LinesJoinedText(text) ==
    IF text = Undefined THEN <<>> ELSE Folded(Trim(text), TRUE)

\* the summary is the text when that is within the limit, and else its first
\* 277 characters and three dots
SummaryOf(summary, text) ==
    /\ Len(summary) <= 280
    /\ Len(text) <= 280 => summary = text
    /\ Len(text) > 280 =>
            summary = SubSeq(text, 1, 277) \o <<".", ".", ".">>

\* C26 as stated: the summary is cut from the text with every run of white
\* space collapsed to one space
C26_SummaryOfCollapsed ==
    pc = "done" => SummaryOf(ret.summary, CollapsedText(args.text))

\* C26: the summary is cut from the text with its line breaks, and the white
\* space around them, collapsed to one space each; spaces and tabs inside a
\* line stay as they are
C26_SummaryOfJoinedLines ==
    pc = "done" => SummaryOf(ret.summary, LinesJoinedText(args.text))

\* two words and a line break between them, 281 characters once joined: the
\* summary is the first 277 and three dots
C26_Witness ==
    /\ pc = "done"
    /\ args.text # Undefined
    /\ Len(LinesJoinedText(args.text)) = SummaryLimit + 1
    /\ \E i \in 1..Len(args.text) : args.text[i] = "\n"
    /\ Len(ret.summary) = SummaryLimit
    /\ SubSeq(ret.summary, SummaryKeep + 1, SummaryLimit) = <<".", ".", ".">>
    /\ ret.summary[MaxText + 1] = " "

----------------------------------------------------------------------------
(* Specification SpecMedia: resolveMediaUrl, the same function in both       *)
(* copies, on media-info values with and without the image URLs and with     *)
(* every bounded list of variants                                            *)

VideoMp4 == <<"v", "i", "d", "e", "o", "/", "m", "p", "4">>

\* video variants with bit rate 1 and 2, one without a bit rate, one without
\* a URL, one whose URL is the empty string, a playlist that is no video, and
\* a hole in the list
MediaVariants ==
    {[content_type |-> VideoMp4, bit_rate |-> 1, url |-> <<"V">>],
     [content_type |-> VideoMp4, bit_rate |-> 2, url |-> <<"Q">>],
     [content_type |-> VideoMp4, url |-> <<"W">>],
     [content_type |-> VideoMp4, bit_rate |-> 2],
     [content_type |-> VideoMp4, bit_rate |-> 2, url |-> <<>>],
     [content_type |-> <<"m", "3", "u", "8">>, url |-> <<"H">>],
     Null}

\* the image fields: absent, empty, set
MediaImages ==
    {<<>>, [original_img_url |-> <<>>], [original_img_url |-> <<"P">>]}

MediaPreviews ==
    {<<>>, [preview_image |-> <<>>],
     [preview_image |-> [original_img_url |-> <<"R">>]]}

MediaInfos ==
    {Null}
    \cup {image @@ preview : image \in MediaImages, preview \in MediaPreviews}
    \cup {image @@ preview @@ [variants |-> v] :
            image \in MediaImages, preview \in MediaPreviews,
            v \in SeqsUpTo(MediaVariants, MaxEntities)}

InitMedia ==
    /\ article = NoArticle
    /\ args \in {[info |-> info] : info \in MediaInfos}
    /\ ret = Null
    /\ pc = "call"
    /\ ResolverIdle
    /\ RenderIdle
    /\ others = <<>>

\* resolveMediaUrl(entity?.media_info)
MediaUrlCall ==
    /\ pc = "call"
    /\ ret' = [url |-> resolveMediaUrl(args.info)]
    /\ pc' = "done"
    /\ UNCHANGED <<renderVars, others, article, args, resolverVars>>

NextMedia == MediaUrlCall

SpecMedia == InitMedia /\ [][NextMedia]_vars

\* the field is a non-empty string
Populated(obj, field) == field \in DOMAIN obj /\ obj[field] # <<>>

VariantsOf(info) == IF "variants" \in DOMAIN info THEN info.variants ELSE <<>>

\* the positions of the variants whose content type contains 'video'
VideoPositions(variants) ==
    {i \in 1..Len(variants) :
        /\ variants[i] # Null
        /\ "content_type" \in DOMAIN variants[i]
        /\ Occurrences(VideoWord, variants[i].content_type) > 0}

RateAt(variants, i) ==
    IF "bit_rate" \in DOMAIN variants[i] THEN variants[i].bit_rate ELSE 0

\* the first of the video variants that none exceeds in bit rate
BestVideo(variants) ==
    CHOOSE i \in VideoPositions(variants) :
        \A j \in VideoPositions(variants) :
            \/ RateAt(variants, j) < RateAt(variants, i)
            \/ RateAt(variants, j) = RateAt(variants, i) /\ i <= j

HasUrl(variant) == variant # Null /\ "url" \in DOMAIN variant

\* the URL the priority of the claim selects, Undefined for none; the URL of
\* a variant is whatever string it carries
PriorityUrl(info) ==
    IF info = Null THEN Undefined
    ELSE IF Populated(info, "original_img_url") THEN info.original_img_url
    ELSE IF "preview_image" \in DOMAIN info
            /\ Populated(info.preview_image, "original_img_url")
         THEN info.preview_image.original_img_url
    ELSE IF VideoPositions(VariantsOf(info)) # {}
            /\ HasUrl(VariantsOf(info)[BestVideo(VariantsOf(info))])
         THEN VariantsOf(info)[BestVideo(VariantsOf(info))].url
    ELSE IF VariantsOf(info) # <<>> /\ HasUrl(VariantsOf(info)[1])
         THEN VariantsOf(info)[1].url
    ELSE Undefined

\* C27: resolveMediaUrl returns the original image URL if there is one; else
\* the preview image's original URL; else the URL of the video variant with
\* the highest bit rate, a missing bit rate counting as 0 and the first of
\* equals winning; else the URL of the first variant; else none
C27_Priority == pc = "done" => ret.url = PriorityUrl(args.info)

\* no image URL; a playlist, then videos of bit rate 1 and 2: the URL of the
\* last one is returned
C27_Witness ==
    /\ pc = "done"
    /\ args.info # Null
    /\ ~Populated(args.info, "original_img_url")
    /\ "preview_image" \notin DOMAIN args.info
    /\ Len(VariantsOf(args.info)) = 3
    /\ VideoPositions(VariantsOf(args.info)) = {2, 3}
    /\ RateAt(VariantsOf(args.info), 2) = 1
    /\ RateAt(VariantsOf(args.info), 3) = 2
    /\ ret.url = <<"Q">>

----------------------------------------------------------------------------
(* Every media record is embedded once (checked under SpecCopies, for both   *)
(* copies)                                                                   *)

\* the URLs the media records of the document resolve to, the cover apart
MediaRecordUrls ==
    {u \in {ResolvedUrls(article)[i] : i \in 1..Len(ResolvedUrls(article))} :
        u # Undefined /\ u # <<>> /\ u # coverUrl}

\* the lines of doc that embed u as an image
ImageLinesOf(doc, u) == {i \in 1..Len(doc) : IsImageOf(doc[i], u)}

\* C28: in the Markdown returned for a document, every URL that one of its
\* media records resolves to and that is not the cover is embedded by
\* exactly one image line
C28_EmbeddedOnce ==
    (pc = "done" /\ article # Null) =>
        \A out \in {OutLines} : \A u \in MediaRecordUrls :
            Cardinality(ImageLinesOf(out, u)) = 1

\* media m1 is the cover, m2 is attached to a block and m3 to none: the body
\* embeds Q, the gallery R, and P is embedded nowhere
C28_Witness ==
    /\ pc = "done"
    /\ article # Null
    /\ coverUrl = <<"P">>
    /\ MediaRecordUrls = {<<"Q">>, <<"R">>}
    /\ \E out \in {OutLines} :
            /\ ImageLinesOf(BodyOf(out), <<"Q">>) # {}
            /\ ImageLinesOf(GalleryOf(out), <<"R">>) # {}
            /\ ImageLinesOf(out, <<"P">>) = {}

----------------------------------------------------------------------------
(* Specification SpecPaired: renderInlineLinks on a text with one range,     *)
(* over the entity maps of SpecMerge, with the lookup and the media-link map *)
(* formatArticleMarkdown builds from the entity map                          *)

PairedRanges ==
    {<<[key |-> k, offset |-> 0, length |-> 1]>> : k \in 0..MaxEntities}

InitPaired ==
    /\ article = NoArticle
    /\ ResolverIdle
    /\ RenderIdle
    /\ others = <<>>
    /\ args \in {[text |-> InlineText, entityRanges |-> r, entityMap |-> m] :
                    r \in PairedRanges,
                    m \in SeqsUpTo(MergeEntries, MaxEntities) \cup {CrossedKeys}}
    /\ ret = Null
    /\ pc = "call"

NextPaired == RenderInlineCall

SpecPaired == InitPaired /\ [][NextPaired]_vars

\* the position (1-based) of the entry the lookup resolves key k to: the
\* first that declares k, else the one at index k; 0 when there is none
ResolvedPosition(entityMap, k) ==
    IF Declaring(entityMap, k) # {} THEN MinOf(Declaring(entityMap, k))
    ELSE IF k < Len(entityMap) /\ EntryValue(entityMap[k + 1]) # Null
         THEN k + 1
    ELSE 0

\* the URL of the link paired with the media entity at position pos,
\* Undefined when it was left unpaired
PairedUrl(entityMap, pos) ==
    LET pairs == PairsOf(entityMap)
        mine == {i \in 1..Len(pairs) : pairs[i].media.idx = pos - 1}
    IN  IF mine = {} THEN Undefined ELSE pairs[MinOf(mine)].link.url

\* the first character of the text as the text of a link to url
LinkedFirst(text, url) ==
    <<"[", text[1], "]", "(">> \o url \o <<")">> \o Tail(text)

\* the range of the call resolves to a Media or Image entity
RangeOnMedia ==
    LET pos == ResolvedPosition(args.entityMap, args.entityRanges[1].key)
    IN  pos # 0 /\ IsMediaType(EntryValue(args.entityMap[pos]))

\* the range is linked to the URL paired with the entity it resolves to,
\* and left alone when that entity was left unpaired
LinkedToOwnPair ==
    LET pos == ResolvedPosition(args.entityMap, args.entityRanges[1].key)
        url == PairedUrl(args.entityMap, pos)
    IN  ret.out = IF url = Undefined THEN args.text
                  ELSE LinkedFirst(args.text, url)

\* C29: a range that resolves to a Media or Image entity is linked to the
\* URL of the link paired with that entity, and not linked when the entity
\* was left unpaired, whatever the indexes and logical keys of the others
C29_LinkOfSameEntity ==
    (pc = "rendered" /\ RangeOnMedia) => LinkedToOwnPair

\* no number is the positional index or the logical key of two Media/Image
\* entities
KeysApart(entityMap) ==
    LET media == MediaEntriesFrom(entityMap, 1)
    IN  \A i, j \in 1..Len(media) :
            i # j => {media[i].idx, media[i].key}
                        \cap {media[j].idx, media[j].key} = {}

\* what holds: the same, for the entity maps in which the Media/Image
\* entities share no index or key
LinkOfSameEntityKeysApart ==
    (pc = "rendered" /\ RangeOnMedia /\ KeysApart(args.entityMap))
        => LinkedToOwnPair

----------------------------------------------------------------------------
(* The records of the resolver's map (checked under SpecResolver)            *)

\* the URL of a post: with the handle when the record has one, else generic
UrlFor(info, id) ==
    IF "authorUsername" \in DOMAIN info /\ info.authorUsername # <<>>
    THEN <<"h", "t", "t", "p", "s", ":", "/", "/", "x", ".", "c", "o", "m", "/">>
            \o info.authorUsername
            \o <<"/", "s", "t", "a", "t", "u", "s", "/">> \o id
    ELSE <<"h", "t", "t", "p", "s", ":", "/", "/", "x", ".", "c", "o", "m", "/",
           "i", "/", "w", "e", "b", "/", "s", "t", "a", "t", "u", "s", "/">>
            \o id

\* the lookup of id was rejected
Rejected(id) ==
    \E i \in 1..Len(lookups) :
        lookups[i].id = id /\ lookups[i].outcome = "rejected"

\* the IDs the service may answer the lookup of id with
AnsweredIds(id) ==
    {tweet.rest_id : tweet \in {t \in TweetPayloads(id) :
                                    t # Null /\ "rest_id" \in DOMAIN t}}

\* C30 as stated: every record carries the ID it is stored under and the URL
\* built from that ID
C30_IdIsKey ==
    \A id \in DOMAIN referencedTweets :
        /\ referencedTweets[id].id = id
        /\ referencedTweets[id].url = UrlFor(referencedTweets[id], id)

\* C30: every record carries the URL built from its own id; the record of a
\* rejected lookup carries the ID it is stored under and no handle; the
\* record of a resolved lookup carries the ID it is stored under or the
\* rest_id of the post the service answered with
C30_UrlOfOwnId ==
    \A id \in DOMAIN referencedTweets :
        LET info == referencedTweets[id]
        IN  /\ info.url = UrlFor(info, info.id)
            /\ Rejected(id) =>
                    info.id = id /\ "authorUsername" \notin DOMAIN info
            /\ info.id # id => ~Rejected(id) /\ info.id \in AnsweredIds(id)

\* the map returned holds post 7 under its own ID after a rejected lookup
\* and, under 8, the record of a post that carries the rest_id 0
C30_Witness ==
    /\ pc = "returned"
    /\ DOMAIN ret.referencedTweets = {<<"7">>, <<"8">>}
    /\ Rejected(<<"7">>)
    /\ ret.referencedTweets[<<"7">>].id = <<"7">>
    /\ ret.referencedTweets[<<"8">>].id = <<"0">>
    /\ ret.referencedTweets[<<"8">>].url = UrlFor([authorUsername |-> <<"m">>],
                                                   <<"0">>)

====
